---- MODULE Spec2Model ----
(***************************************************************************)
(* jamf-snipe-sync: the reconcile (jamf-snipe-ultimate-100-percent-sync),  *)
(* the verifier (verify-100-percent-sync) and the cleaner                  *)
(* (cleanup-and-sync-100-percent) run, one after the other, against one    *)
(* Jamf/Intune source and one Snipe-IT target.  The two external systems   *)
(* are the world; every HTTP attempt is one step whose outcome the world   *)
(* chooses.                                                                *)
(***************************************************************************)
EXTENDS Integers, Sequences, FiniteSets, TLC

VARIABLES
    assets,        \* target: hardware assets, records [id, serial, user]
    nextId,        \* target: next hardware id
    models,        \* target: models, records [id, name]
    nextModelId,   \* target: next model id
    jamf,          \* source: serials enrolled in Jamf
    intune,        \* source: serials in the Intune export file
    prog,          \* which script is running ("idle" between runs)
    pc,            \* position inside the running script
    runs,          \* scripts started so far
    devices,       \* ultimate sync: the device list, as far as it has been read
    stats,         \* stats['total_devices'|'created'|'updated'|'failed']
    model_cache,   \* ultimate sync: model_cache
    user_cache,    \* ultimate sync: user_cache
    loc,           \* locals of the running function
    req,           \* api_call_with_retry: the request being sent
    attempt,       \* api_call_with_retry: loop variable
    resp,          \* api_call_with_retry: its return value
    faults,        \* requests so far that met an outcome other than a usable answer
    callReqs,      \* requests issued by the current sync_device_to_snipe call or script
    calls,         \* one entry per finished sync_device_to_snipe call
    vlog,          \* one entry per device visited by verify_sync
    report,        \* what the running script has reported
    scenario       \* progress of the A,B,C walk-through

vars == <<assets, nextId, models, nextModelId, jamf, intune, prog, pc, runs,
          devices, stats, model_cache, user_cache, loc, req, attempt, resp,
          faults, callReqs, calls, vlog, report, scenario>>

target == <<assets, nextId, models, nextModelId>>
source == <<jamf, intune>>

----
\* Bounds of the model

MaxDevices == 3
MaxFaults == 1
MaxRuns == 2
MaxWords == 2

\* Program constants

MAX_RETRIES == 5
MAX_WORKERS == 4
max_sync_attempts == 3

\* Python's None where a string is expected; a missing id is 0
None == "<None>"

Serials == {"A", "B", "C"}
MobileSerials == {"C"}

\* The device records handed to the reconcile
DeviceRecords ==
    { [serial_number |-> "A", device_name |-> "A", prestage_name |-> "Student Macs",
       email |-> "kim@student.wic.ca", model |-> "MacBook Air"],
      [serial_number |-> "B", device_name |-> "B", prestage_name |-> "",
       email |-> "", model |-> "MacBook Air"],
      [serial_number |-> "B", device_name |-> "B", prestage_name |-> "",
       email |-> "lee@wic.ca", model |-> "MacBook Air"],
      [serial_number |-> "C", device_name |-> "Lobby iPad", prestage_name |-> "",
       email |-> "AMackenzie@wic.ca", model |-> "iPad"],
      [serial_number |-> "", device_name |-> "Ghost", prestage_name |-> "",
       email |-> "", model |-> "MacBook Air"],
      [serial_number |-> None, device_name |-> "Ghost", prestage_name |-> "",
       email |-> "", model |-> "MacBook Air"] }

\* The users of the target
Users ==
    { [id |-> 7, email |-> "kim@student.wic.ca"],
      [id |-> 8, email |-> "amckenzie@wic.ca"] }

----
\* Strings

LowerCh(c) ==
    CASE c = "A" -> "a" [] c = "B" -> "b" [] c = "C" -> "c" [] c = "D" -> "d"
      [] c = "E" -> "e" [] c = "F" -> "f" [] c = "G" -> "g" [] c = "H" -> "h"
      [] c = "I" -> "i" [] c = "J" -> "j" [] c = "K" -> "k" [] c = "L" -> "l"
      [] c = "M" -> "m" [] c = "N" -> "n" [] c = "O" -> "o" [] c = "P" -> "p"
      [] c = "Q" -> "q" [] c = "R" -> "r" [] c = "S" -> "s" [] c = "T" -> "t"
      [] c = "U" -> "u" [] c = "V" -> "v" [] c = "W" -> "w" [] c = "X" -> "x"
      [] c = "Y" -> "y" [] c = "Z" -> "z" [] OTHER -> c

RECURSIVE lower(_)
lower(s) ==
    IF Len(s) = 0 THEN ""
    ELSE LowerCh(SubSeq(s, 1, 1)) \o lower(SubSeq(s, 2, Len(s)))

\* Python's  k in s  on strings
In(k, s) ==
    \E i \in 1..(Len(s) - Len(k) + 1) : SubSeq(s, i, i + Len(k) - 1) = k

Truthy_null_only(s) == s # None

\* Python's truth value of a string or None
Truthy(s) == s # None /\ s # ""

----
\* Classifier

CATEGORIES ==
    [student        |-> [id |-> 12, name |-> "Student Loaner Laptop"],
     staff          |-> [id |-> 16, name |-> "Staff Mac Laptop"],
     ssc            |-> [id |-> 13, name |-> "SSC Laptop"],
     checkin_ipad   |-> [id |-> 20, name |-> "Check-In iPad"],
     donations_ipad |-> [id |-> 19, name |-> "Donations iPad"],
     moneris_ipad   |-> [id |-> 21, name |-> "Moneris iPad"],
     teacher_ipad   |-> [id |-> 15, name |-> "Teacher iPad"],
     appletv        |-> [id |-> 11, name |-> "Apple TVs"]]

\* no rule of a block matched: the code falls through to the next block
NoCategory == [id |-> 0, name |-> ""]

prestage_category_staff_first(prestage_lower) ==
    IF prestage_lower = "" THEN NoCategory
    ELSE IF In("staff ipads", prestage_lower) \/ In("teacher ipad", prestage_lower)
    THEN CATEGORIES.teacher_ipad
    ELSE IF In("kiosk ipad", prestage_lower) \/ In("check-in", prestage_lower)
    THEN CATEGORIES.checkin_ipad
    ELSE IF In("apple tv", prestage_lower)
    THEN CATEGORIES.appletv
    ELSE IF In("student", prestage_lower) \/ In("loaner", prestage_lower)
    THEN CATEGORIES.student
    ELSE IF In("staff", prestage_lower) \/ In("employee", prestage_lower)
    THEN CATEGORIES.staff
    ELSE IF In("ssc", prestage_lower)
    THEN CATEGORIES.ssc
    ELSE NoCategory

\* lines 368-389: the block under  if prestage_lower
prestage_category(prestage_lower) ==
    IF prestage_lower = "" THEN NoCategory
    ELSE IF In("staff ipads", prestage_lower) \/ In("teacher ipad", prestage_lower)
    THEN CATEGORIES.teacher_ipad
    ELSE IF In("kiosk ipad", prestage_lower) \/ In("check-in", prestage_lower)
    THEN CATEGORIES.checkin_ipad
    ELSE IF In("apple tv", prestage_lower)
    THEN CATEGORIES.appletv
    ELSE IF In("student", prestage_lower) \/ In("loaner", prestage_lower)
    THEN CATEGORIES.student
    ELSE IF In("ssc", prestage_lower)
    THEN CATEGORIES.ssc
    ELSE IF In("staff", prestage_lower) \/ In("employee", prestage_lower)
    THEN CATEGORIES.staff
    ELSE NoCategory

\* lines 392-398: the block under  if model_lower
model_category(model_lower) ==
    IF model_lower = "" THEN NoCategory
    ELSE IF In("apple tv", model_lower) THEN CATEGORIES.appletv
    ELSE IF In("ipad", model_lower) THEN CATEGORIES.teacher_ipad
    ELSE NoCategory

\* lines 401-404: the block under  if email_lower
email_category(email_lower) ==
    IF email_lower = "" THEN NoCategory
    ELSE IF In("@student", email_lower) \/ In("@students", email_lower)
    THEN CATEGORIES.student
    ELSE NoCategory

\* lines 407-413: the block under  if device_lower
device_category(device_lower) ==
    IF device_lower = "" THEN NoCategory
    ELSE IF \E word \in {"student", "loaner", "loan", "it-"} : In(word, device_lower)
    THEN CATEGORIES.student
    ELSE IF In("ssc", device_lower) THEN CATEGORIES.ssc
    ELSE NoCategory

\* x.lower() if x else ''
lower_or_empty_case_kept(x) == IF Truthy(x) THEN x ELSE ""

lower_or_empty(x) == IF Truthy(x) THEN lower(x) ELSE ""

FirstOf_or_nothing(blocks) ==
    IF \E i \in 1..Len(blocks) : blocks[i] # NoCategory
    THEN blocks[CHOOSE i \in 1..Len(blocks) :
                    /\ blocks[i] # NoCategory
                    /\ \A j \in 1..(i - 1) : blocks[j] = NoCategory]
    ELSE NoCategory

\* the first block that returns decides; line 417 returns Staff
FirstOf(blocks) ==
    IF \E i \in 1..Len(blocks) : blocks[i] # NoCategory
    THEN blocks[CHOOSE i \in 1..Len(blocks) :
                    /\ blocks[i] # NoCategory
                    /\ \A j \in 1..(i - 1) : blocks[j] = NoCategory]
    ELSE CATEGORIES.staff

determine_category_from_prestage(prestage_name, device_name, email, model) ==
    FirstOf(<<prestage_category(lower_or_empty(prestage_name)),
              model_category(lower_or_empty(model)),
              email_category(lower_or_empty(email)),
              device_category(lower_or_empty(device_name))>>)

category_mapping(category_id) ==
    CASE category_id = 12 -> "Student" [] category_id = 16 -> "Staff"
      [] category_id = 13 -> "SSC"     [] category_id = 20 -> "CheckIn"
      [] category_id = 19 -> "Donations" [] category_id = 21 -> "Moneris"
      [] category_id = 15 -> "Teacher" [] category_id = 11 -> "AppleTV"
      [] OTHER -> "Unknown"

\* f"{model_name} ({category_suffix})"
category_specific_name(model_name, category_id) ==
    model_name \o " (" \o category_mapping(category_id) \o ")"

\* f"{model_name}_{category_id}"
cache_key_model_only(model_name, category_id) == model_name

cache_key(model_name, category_id) == model_name \o "_" \o ToString(category_id)

----
\* The target's answers (Snipe-IT, a black box: what a request returns and does)

SerialsOf(as) == { a.serial : a \in as }

\* GET /hardware/byserial/{serial}: the ids of the rows
RowsBySerial(serial) == { a.id : a \in { x \in assets : x.serial = serial } }

\* GET /models?search=: the rows
RowsModels(search) == { m \in models : In(lower(search), lower(m.name)) }

\* GET /users?search=: the rows
RowsUsers(search) == { u \in Users : In(lower(search), lower(u.email)) }

MinId(rows) == CHOOSE i \in { r.id : r \in rows } : \A r \in rows : i <= r.id

----
\* api_call_with_retry

\* the inventory of the source in the order of its pages; "" is an entry
\* without a name
JamfOrder == <<"", "A", "B", "C">>
Listing(S) ==
    LET F[i \in 0..Len(JamfOrder)] ==
            IF i = 0 THEN <<>>
            ELSE IF JamfOrder[i] \in S THEN Append(F[i - 1], JamfOrder[i])
            ELSE F[i - 1]
    IN  F[Len(JamfOrder)]

NoReq == [kind |-> "none", arg |-> "", hit |-> FALSE]
Pending == [st |-> "pending", body |-> 0]
RespNone == [st |-> "none", body |-> 0]

\* a request is handed to api_call_with_retry
Issue(kind, arg) ==
    /\ req' = [kind |-> kind, arg |-> arg, hit |-> FALSE]
    /\ attempt' = 0
    /\ resp' = Pending
    /\ callReqs' = IF pc \in {"verify"} THEN callReqs ELSE Append(callReqs, kind)

\* the body of the 200 answer to the request
Body(r) ==
    CASE r.kind = "GET models" -> RowsModels(r.arg)
      [] r.kind = "POST models" -> nextModelId
      [] r.kind = "GET byserial" -> RowsBySerial(r.arg)
      [] r.kind = "POST hardware" -> nextId
      [] r.kind = "GET users" -> RowsUsers(r.arg)
      [] r.kind = "GET computers" -> Listing(jamf \ MobileSerials)
      [] r.kind = "GET mobiles" -> Listing(jamf \cap MobileSerials)
      [] OTHER -> 0

\* what a request that reached the target did to it
Applied(r) ==
    /\ assets' = IF r.kind = "POST hardware"
                 THEN assets \cup {[id |-> nextId, serial |-> r.arg, user |-> 0]}
                 ELSE IF r.kind = "POST checkout"
                 THEN { IF a.id = r.arg[1] THEN [a EXCEPT !.user = r.arg[2]] ELSE a :
                        a \in assets }
                 ELSE assets
    /\ nextId' = IF r.kind = "POST hardware" THEN nextId + 1 ELSE nextId
    /\ models' = IF r.kind = "POST models"
                 THEN models \cup {[id |-> nextModelId, name |-> r.arg]} ELSE models
    /\ nextModelId' = IF r.kind = "POST models" THEN nextModelId + 1 ELSE nextModelId

NotApplied == UNCHANGED <<assets, nextId, models, nextModelId>>

ContinueOrNone_until_accepted ==
    attempt' = attempt + 1 /\ resp' = Pending

\* the except branches: retry while attempt < MAX_RETRIES - 1, else return None
RetryOrNone ==
    IF attempt < MAX_RETRIES - 1
    THEN attempt' = attempt + 1 /\ resp' = Pending
    ELSE attempt' = attempt /\ resp' = RespNone

\* the 429 branch: continue; the loop ends after MAX_RETRIES rounds, return None
ContinueOrNone ==
    IF attempt + 1 < MAX_RETRIES
    THEN attempt' = attempt + 1 /\ resp' = Pending
    ELSE attempt' = attempt /\ resp' = RespNone

\* ok: 200 with the body of Body; nopayload: 200, the write done, a JSON body
\* without payload; badbody: 200 with a body the caller cannot read; 429,
\* timeout and error: the three branches of the loop; timeout_applied: a
\* timeout on the client after the target stored the asset;
\* 429_hint_unreadable: a 429 whose Retry-After is no integer, int() raises
Outcomes ==
    {"ok", "nopayload", "badbody", "429", "429_hint_unreadable", "timeout",
     "timeout_applied", "error"}

\* one round of the for loop of api_call_with_retry
HttpAttempt ==
    /\ prog = "sync"
    /\ req.kind # "none"
    /\ resp.st = "pending"
    /\ \E o \in Outcomes :
        /\ o # "ok" => (req.hit \/ faults < MaxFaults)
        /\ o = "timeout_applied" => req.kind = "POST hardware"
        /\ o = "nopayload" => req.kind \in {"POST hardware", "POST models"}
        /\ faults' = IF o = "ok" \/ req.hit THEN faults ELSE faults + 1
        /\ req' = IF o = "ok" THEN req ELSE [req EXCEPT !.hit = TRUE]
        /\ CASE o = "ok" ->
                  /\ Applied(req)
                  /\ resp' = [st |-> "ok", body |-> Body(req)]
                  /\ attempt' = attempt
             [] o = "nopayload" ->
                  /\ Applied(req)
                  /\ resp' = [st |-> "ok", body |-> 0]
                  /\ attempt' = attempt
             [] o = "badbody" ->
                  /\ NotApplied
                  /\ resp' = [st |-> "bad", body |-> 0]
                  /\ attempt' = attempt
             [] o = "429" -> NotApplied /\ ContinueOrNone
             [] o = "429_hint_unreadable" -> NotApplied /\ RetryOrNone
             [] o = "timeout" -> NotApplied /\ RetryOrNone
             [] o = "timeout_applied" -> Applied(req) /\ RetryOrNone
             [] o = "error" -> NotApplied /\ RetryOrNone
    /\ UNCHANGED <<jamf, intune, prog, pc, runs, devices, stats, model_cache,
                   user_cache, loc, callReqs, calls, vlog, report, scenario>>

----
\* Ultimate sync: get_user_by_email, get_or_create_model, sync_device_to_snipe

RECURSIVE replace(_, _, _)
replace(s, old, new) ==
    IF Len(s) < Len(old) THEN s
    ELSE IF SubSeq(s, 1, Len(old)) = old
         THEN new \o replace(SubSeq(s, Len(old) + 1, Len(s)), old, new)
         ELSE SubSeq(s, 1, 1) \o replace(SubSeq(s, 2, Len(s)), old, new)

email_variations(email_lower) ==
    IF In("mackenzie", email_lower)
    THEN <<email_lower, replace(email_lower, "mackenzie", "mckenzie")>>
    ELSE IF In("mckenzie", email_lower)
         THEN <<email_lower, replace(email_lower, "mckenzie", "mackenzie")>>
         ELSE <<email_lower>>


NoDevice == [serial_number |-> None, device_name |-> "", prestage_name |-> "",
             email |-> "", model |-> ""]
NoLoc == [device |-> NoDevice, category_id |-> 0, model_id |-> 0, asset_id |-> 0,
          is_update |-> FALSE, tally |-> "none", vi |-> 0, idx |-> 0,
          found |-> 0, missing |-> 0,
          jamf_serials |-> {}, intune_serials |-> {}, snipe_devices |-> {},
          to_delete |-> <<>>, answer |-> "<unasked>", deleted |-> 0,
          failed |-> 0, delete_sent |-> 0, assets0 |-> {},
          user0 |-> 0, checkout |-> "none", retries |-> 0, success |-> FALSE]
NoStats == [total_devices |-> 0, created |-> 0, updated |-> 0, failed |-> 0]
NoCache == [k \in {} |-> 0]
NoReport == [kind |-> "none"]

Put(cache, k, v) == [x \in (DOMAIN cache) \cup {k} |-> IF x = k THEN v ELSE cache[x]]

Idle ==
    /\ req' = NoReq
    /\ attempt' = 0
    /\ resp' = Pending

AfterCall_stop_on_failure(ret) == IF ret THEN "loop" ELSE "verify"

\* line 647: the return value is dropped and the for loop goes on
AfterCall(ret) == "loop"

\* the user an asset is checked out to, 0 for none
UserOf(asset_id) ==
    IF \E a \in assets : a.id = asset_id
    THEN (CHOOSE a \in assets : a.id = asset_id).user
    ELSE 0

CountFailure_never(st, tally, counted) == st

\* stats['failed'] += 1 on each of the failure returns, lines 525, 546, 583,
\* 599 and 625; a device counted as created or updated is past them
CountFailure(st, tally, counted) ==
    IF tally = "failed" /\ counted = "none"
    THEN [st EXCEPT !.failed = @ + 1] ELSE st

\* sync_device_to_snipe returns ret, having counted the device under tally
Finish(ret, tally, l) ==
    /\ stats' = CountFailure(stats, tally, l.tally)
    /\ calls' = Append(calls, [device |-> l.device, ret |-> ret, tally |-> tally,
                               asset_id |-> l.asset_id, reqs |-> callReqs,
                               checkout |-> l.checkout, user0 |-> l.user0,
                               user |-> UserOf(l.asset_id), model_id |-> l.model_id,
                               category_id |-> l.category_id])
    /\ pc' = AfterCall(ret)
    /\ loc' = NoLoc
    /\ callReqs' = <<>>
    /\ Idle

\* lines 561-563: the by-serial lookup is issued once the model id is known
ToLookup(l) ==
    /\ Issue("GET byserial", l.device.serial_number)
    /\ pc' = "byserial"
    /\ loc' = l
    /\ UNCHANGED <<stats, calls>>

\* lines 544-547: no model id
NoModel == Finish(FALSE, "failed", loc)

\* sync_device_to_snipe is called with device d and runs up to its first
\* request, lines 520-547
CallSync(d) ==
    LET category == determine_category_from_prestage(
                        d.prestage_name, d.device_name, d.email, d.model)
        key == cache_key(d.model, category.id)
        l == [NoLoc EXCEPT !.device = d, !.category_id = category.id]
    IN  IF ~Truthy(d.serial_number)
        THEN Finish(FALSE, "failed", l)
        ELSE IF key \in DOMAIN model_cache
        THEN ToLookup([l EXCEPT !.model_id = model_cache[key]])
        ELSE /\ Issue("GET models", category_specific_name(d.model, category.id))
             /\ pc' = "model_search"
             /\ loc' = l
             /\ UNCHANGED <<stats, calls>>

\* process_devices_in_batches takes the next device of the list and calls
\* sync_device_to_snipe
ProcessNext ==
    /\ prog = "sync"
    /\ pc = "loop"
    /\ Len(devices) < stats.total_devices
    /\ \E d \in DeviceRecords :
        /\ devices' = Append(devices, d)
        /\ CallSync(d)
    /\ UNCHANGED <<target, source, prog, runs, model_cache, user_cache, faults,
                   vlog, report, scenario>>

\* get_or_create_model, lines 442-459
ModelSearchDone ==
    /\ prog = "sync"
    /\ pc = "model_search"
    /\ resp.st # "pending"
    /\ LET name == category_specific_name(loc.device.model, loc.category_id)
           key == cache_key(loc.device.model, loc.category_id)
           hits == IF resp.st = "ok"
                   THEN { m \in resp.body : lower(m.name) = lower(name) } ELSE {}
       IN  IF resp.st = "bad"
           THEN NoModel /\ UNCHANGED model_cache
           ELSE IF hits # {}
           THEN /\ model_cache' = Put(model_cache, key, MinId(hits))
                /\ ToLookup([loc EXCEPT !.model_id = MinId(hits)])
           ELSE /\ Issue("POST models", name)
                /\ pc' = "model_create"
                /\ UNCHANGED <<loc, stats, calls, model_cache>>
    /\ UNCHANGED <<target, source, prog, runs, devices, user_cache, faults,
                   vlog, report, scenario>>

\* get_or_create_model, lines 461-473
ModelCreateDone ==
    /\ prog = "sync"
    /\ pc = "model_create"
    /\ resp.st # "pending"
    /\ LET key == cache_key(loc.device.model, loc.category_id)
       IN  IF resp.st = "ok" /\ resp.body # 0
           THEN /\ model_cache' = Put(model_cache, key, resp.body)
                /\ ToLookup([loc EXCEPT !.model_id = resp.body])
           ELSE NoModel /\ UNCHANGED model_cache
    /\ UNCHANGED <<target, source, prog, runs, devices, user_cache, faults,
                   vlog, report, scenario>>

\* sync_device_to_snipe, lines 565-589: update when the lookup shows rows,
\* create in every other case
LookupDone ==
    /\ prog = "sync"
    /\ pc = "byserial"
    /\ resp.st # "pending"
    /\ IF resp.st = "bad"
       THEN Finish(FALSE, "failed", loc)
       ELSE IF resp.st = "ok" /\ resp.body # {}
       THEN \E id \in resp.body :
              /\ Issue("PUT hardware", id)
              /\ pc' = "update"
              /\ loc' = [loc EXCEPT !.asset_id = id, !.is_update = TRUE]
              /\ UNCHANGED <<stats, calls>>
       ELSE /\ Issue("POST hardware", loc.device.serial_number)
            /\ pc' = "create"
            /\ UNCHANGED <<loc, stats, calls>>
    /\ UNCHANGED <<target, source, prog, runs, devices, model_cache, user_cache,
                   faults, vlog, report, scenario>>

ShouldCheckout_any_email(l) == Truthy(l.device.email)

\* line 604: if email and asset_id
ShouldCheckout(l) == Truthy(l.device.email) /\ l.asset_id # 0

\* lines 602-606: the checkout step, up to its first request
ToCheckout(l0, st) ==
    LET l == [l0 EXCEPT !.user0 = UserOf(l0.asset_id)]
        email == l.device.email
        email_lower == lower(email)
    IN  /\ stats' = st
        /\ IF ShouldCheckout(l)
           THEN IF email_lower \in DOMAIN user_cache
                THEN /\ Issue("POST checkout", <<l.asset_id, user_cache[email_lower]>>)
                     /\ pc' = "checkout"
                     /\ loc' = l
                     /\ UNCHANGED calls
                ELSE /\ Issue("GET users", email_variations(email_lower)[1])
                     /\ pc' = "user_search"
                     /\ loc' = [l EXCEPT !.vi = 1]
                     /\ UNCHANGED calls
           ELSE /\ calls' = Append(calls, [device |-> l.device, ret |-> TRUE,
                                           tally |-> l.tally, asset_id |-> l.asset_id,
                                           reqs |-> callReqs, checkout |-> "skipped",
                                           user0 |-> l.user0,
                                           user |-> UserOf(l.asset_id),
                                           model_id |-> l.model_id,
                                           category_id |-> l.category_id])
                /\ pc' = "loop"
                /\ loc' = NoLoc
                /\ callReqs' = <<>>
                /\ Idle

\* line 578: response and response.status_code == 200 (the body is not read)
UpdateSucceeded(r) == r.st \in {"ok", "bad"}

CreateSucceeded_always(r) == TRUE

\* line 591: response and response.status_code == 200
CreateSucceeded(r) == r.st \in {"ok", "bad"}

\* lines 578-584
UpdateDone ==
    /\ prog = "sync"
    /\ pc = "update"
    /\ resp.st # "pending"
    /\ IF UpdateSucceeded(resp)
       THEN ToCheckout([loc EXCEPT !.tally = "updated"],
                       [stats EXCEPT !.updated = @ + 1])
       ELSE Finish(FALSE, "failed", loc)
    /\ UNCHANGED <<target, source, prog, runs, devices, model_cache, user_cache,
                   faults, vlog, report, scenario>>

\* lines 591-600
CreateDone ==
    /\ prog = "sync"
    /\ pc = "create"
    /\ resp.st # "pending"
    /\ IF resp.st = "bad"
       THEN Finish(FALSE, "failed", loc)
       ELSE IF CreateSucceeded(resp)
       THEN ToCheckout([loc EXCEPT !.tally = "created", !.asset_id = resp.body],
                       [stats EXCEPT !.created = @ + 1])
       ELSE Finish(FALSE, "failed", loc)
    /\ UNCHANGED <<target, source, prog, runs, devices, model_cache, user_cache,
                   faults, vlog, report, scenario>>

\* get_user_by_email, lines 494-518, and lines 606-614 after it
UserSearchDone ==
    /\ prog = "sync"
    /\ pc = "user_search"
    /\ resp.st # "pending"
    /\ LET email_lower == lower(loc.device.email)
           variations == email_variations(email_lower)
       IN  IF resp.st = "ok" /\ resp.body # {}
           THEN /\ user_cache' = Put(user_cache, email_lower, MinId(resp.body))
                /\ Issue("POST checkout", <<loc.asset_id, MinId(resp.body)>>)
                /\ pc' = "checkout"
                /\ UNCHANGED <<loc, stats, calls>>
           ELSE IF resp.st # "bad" /\ loc.vi < Len(variations)
           THEN /\ Issue("GET users", variations[loc.vi + 1])
                /\ pc' = "user_search"
                /\ loc' = [loc EXCEPT !.vi = @ + 1]
                /\ UNCHANGED <<stats, calls, user_cache>>
           ELSE /\ Finish(TRUE, loc.tally, [loc EXCEPT !.checkout = "nouser"])
                /\ UNCHANGED user_cache
    /\ UNCHANGED <<target, source, prog, runs, devices, model_cache, faults,
                   vlog, report, scenario>>

sync_returns_checkout(r) == r.st # "none"

\* lines 616-621: the answer to the checkout is logged, the function returns True
sync_returns(r) == TRUE

\* lines 616-621
CheckoutDone ==
    /\ prog = "sync"
    /\ pc = "checkout"
    /\ resp.st # "pending"
    /\ Finish(sync_returns(resp), IF sync_returns(resp) THEN loc.tally ELSE "failed",
              [loc EXCEPT !.checkout = IF resp.st = "none" THEN "failed" ELSE "ok"])
    /\ UNCHANGED <<target, source, prog, runs, devices, model_cache, user_cache,
                   faults, vlog, report, scenario>>

----
\* Ultimate sync: main, process_devices_in_batches, verify_sync

FreshProcess ==
    /\ devices' = <<>>
    /\ model_cache' = NoCache
    /\ user_cache' = NoCache
    /\ loc' = NoLoc
    /\ callReqs' = <<>>
    /\ calls' = <<>>
    /\ vlog' = <<>>
    /\ report' = NoReport
    /\ Idle

\* main up to the call of process_devices_in_batches; in a session the
\* reconcile comes first, the verifier and the cleaner after it
StartSync ==
    /\ prog = "idle"
    /\ runs = 0
    /\ runs < MaxRuns
    /\ prog' = "sync"
    /\ pc' = "loop"
    /\ runs' = runs + 1
    /\ FreshProcess
    /\ \E total \in 0..MaxDevices : stats' = [NoStats EXCEPT !.total_devices = total]
    /\ scenario' = IF SerialsOf(assets) = {"B"} /\ Cardinality(assets) = 1
                      /\ jamf = Serials /\ faults = 0
                   THEN 1 ELSE 0
    /\ UNCHANGED <<target, source, faults>>

\* the device list is exhausted: process_devices_in_batches returns and
\* main calls verify_sync
BatchesDone ==
    /\ prog = "sync"
    /\ pc = "loop"
    /\ Len(devices) = stats.total_devices
    /\ Len(calls) = Len(devices)
    /\ pc' = "verify"
    /\ UNCHANGED <<target, source, prog, runs, devices, stats, model_cache,
                   user_cache, loc, req, attempt, resp, faults, callReqs, calls,
                   vlog, report, scenario>>

IsScenarioList(ds) ==
    /\ Len(ds) = 3
    /\ { ds[i].serial_number : i \in 1..Len(ds) } = {"A", "B", "C"}

\* verify_sync, lines 665-671, and once the list is through lines 684-692,
\* print_summary and the exit code of main
VerifyStep ==
    /\ prog = "sync"
    /\ pc = "verify"
    /\ IF loc.idx < Len(devices)
       THEN LET serial == devices[loc.idx + 1].serial_number
            IN  IF ~Truthy(serial)
                THEN /\ vlog' = Append(vlog, [res |-> "skipped", answered |-> FALSE])
                     /\ loc' = [loc EXCEPT !.idx = @ + 1]
                     /\ UNCHANGED <<pc, req, attempt, resp, callReqs, report, scenario>>
                ELSE /\ Issue("GET byserial", serial)
                     /\ pc' = "verify_wait"
                     /\ UNCHANGED <<vlog, loc, report, scenario>>
       ELSE /\ report' = [kind |-> "sync", fatal |-> FALSE,
                          found |-> loc.found, missing |-> loc.missing,
                          total_devices |-> Len(devices),
                          success_rate_100 |->
                              /\ Len(devices) > 0
                              /\ stats.created + stats.updated = Len(devices),
                          exit |-> IF stats.failed = 0 THEN 0 ELSE 1]
            /\ pc' = "done"
            /\ scenario' = IF scenario = 1 /\ IsScenarioList(devices) /\ faults = 0
                           THEN 2 ELSE 0
            /\ UNCHANGED <<vlog, loc, req, attempt, resp, callReqs>>
    /\ UNCHANGED <<target, source, prog, runs, devices, stats, model_cache,
                   user_cache, faults, calls>>

\* verify_sync, lines 673-682
VerifyLookupDone ==
    /\ prog = "sync"
    /\ pc = "verify_wait"
    /\ resp.st # "pending"
    /\ IF resp.st = "bad"
       THEN /\ report' = [kind |-> "sync", fatal |-> TRUE, found |-> loc.found,
                          missing |-> loc.missing, total_devices |-> Len(devices),
                          success_rate_100 |-> FALSE, exit |-> 1]
            /\ pc' = "done"
            /\ scenario' = 0
            /\ UNCHANGED <<vlog, loc>>
       ELSE IF resp.st = "ok" /\ resp.body # {}
       THEN /\ vlog' = Append(vlog, [res |-> "found", answered |-> TRUE])
            /\ loc' = [loc EXCEPT !.idx = @ + 1, !.found = @ + 1]
            /\ pc' = "verify"
            /\ UNCHANGED <<report, scenario>>
       ELSE /\ vlog' = Append(vlog, [res |-> "missing", answered |-> resp.st = "ok"])
            /\ loc' = [loc EXCEPT !.idx = @ + 1, !.missing = @ + 1]
            /\ pc' = "verify"
            /\ UNCHANGED <<report, scenario>>
    /\ Idle
    /\ UNCHANGED <<target, source, prog, runs, devices, stats, model_cache,
                   user_cache, faults, callReqs, calls>>

\* the process ends
Exit ==
    /\ prog # "idle"
    /\ pc = "done"
    /\ prog' = "idle"
    /\ pc' = "none"
    /\ FreshProcess
    /\ stats' = NoStats
    /\ UNCHANGED <<target, source, runs, faults, scenario>>

----
\* verify-100-percent-sync.py

\* a plain requests call: answered, or an exception
Plain == {"ok", "error"}

Fault(o) ==
    /\ o # "ok" => faults < MaxFaults
    /\ faults' = IF o = "ok" THEN faults ELSE faults + 1

\* sync_percentage in hundredths of a percent
Percentage(part, whole) == IF whole > 0 THEN (part * 10000) \div whole ELSE 0

StartVerify ==
    /\ prog = "idle"
    /\ runs < MaxRuns
    /\ prog' = "verify"
    /\ pc' = "token"
    /\ runs' = runs + 1
    /\ FreshProcess
    /\ stats' = NoStats
    /\ scenario' = 0
    /\ UNCHANGED <<target, source, faults>>

\* verify_sync, lines 191-201, with get_jamf_token
VToken ==
    /\ prog = "verify"
    /\ pc = "token"
    /\ \E o \in Plain :
        /\ Fault(o)
        /\ callReqs' = Append(callReqs, "POST oauth/token")
        /\ IF o = "ok"
           THEN pc' = "computers" /\ UNCHANGED report
           ELSE /\ pc' = "done"
                /\ report' = [kind |-> "verify", ret |-> "None", exit |-> 1,
                              jamf_serials |-> {}, snipe_assets |-> {},
                              missing_from_snipe |-> {}, extra_in_snipe |-> {},
                              synced |-> 0, sync_percentage |-> 0]
    /\ UNCHANGED <<target, source, prog, runs, devices, stats, model_cache,
                   user_cache, loc, req, attempt, resp, calls, vlog, scenario>>

\* get_all_jamf_serials, lines 66-97
VComputers ==
    /\ prog = "verify"
    /\ pc = "computers"
    /\ \E o \in Plain :
        /\ Fault(o)
        /\ loc' = IF o = "ok"
                  THEN [loc EXCEPT !.jamf_serials =
                            @ \cup { x \in jamf \ MobileSerials : Truthy(x) }]
                  ELSE loc
    /\ pc' = "mobiles"
    /\ callReqs' = Append(callReqs, "GET computers-inventory")
    /\ UNCHANGED <<target, source, prog, runs, devices, stats, model_cache,
                   user_cache, req, attempt, resp, calls, vlog, report, scenario>>

\* get_all_jamf_serials, lines 100-135
VMobiles ==
    /\ prog = "verify"
    /\ pc = "mobiles"
    /\ \E o \in Plain :
        /\ Fault(o)
        /\ loc' = IF o = "ok"
                  THEN [loc EXCEPT !.jamf_serials =
                            @ \cup { x \in jamf \cap MobileSerials : Truthy(x) }]
                  ELSE loc
    /\ pc' = "assets"
    /\ callReqs' = Append(callReqs, "GET mobile-devices")
    /\ UNCHANGED <<target, source, prog, runs, devices, stats, model_cache,
                   user_cache, req, attempt, resp, calls, vlog, report, scenario>>

VerifyResult_of_snipe_total(jamf_serials, snipe_assets) ==
    LET missing_from_snipe == { x \in jamf_serials : x \notin snipe_assets }
        extra_in_snipe == { x \in snipe_assets : x \notin jamf_serials }
        total_jamf == Cardinality(jamf_serials)
        synced == Cardinality(snipe_assets) - Cardinality(missing_from_snipe)
        sync_percentage == Percentage(synced, total_jamf)
    IN  [kind |-> "verify",
         ret |-> IF sync_percentage = 10000 THEN "True" ELSE "False",
         exit |-> IF sync_percentage = 10000 THEN 0 ELSE 1,
         jamf_serials |-> jamf_serials, snipe_assets |-> snipe_assets,
         missing_from_snipe |-> missing_from_snipe,
         extra_in_snipe |-> extra_in_snipe,
         synced |-> synced, sync_percentage |-> sync_percentage]

VerifyResult_no_missing(jamf_serials, snipe_assets) ==
    LET missing_from_snipe == { x \in jamf_serials : x \notin snipe_assets }
        extra_in_snipe == { x \in snipe_assets : x \notin jamf_serials }
        total_jamf == Cardinality(jamf_serials)
        synced == total_jamf - Cardinality(missing_from_snipe)
        sync_percentage == Percentage(synced, total_jamf)
    IN  [kind |-> "verify",
         ret |-> IF missing_from_snipe = {} THEN "True" ELSE "False",
         exit |-> IF missing_from_snipe = {} THEN 0 ELSE 1,
         jamf_serials |-> jamf_serials, snipe_assets |-> snipe_assets,
         missing_from_snipe |-> missing_from_snipe,
         extra_in_snipe |-> extra_in_snipe,
         synced |-> synced, sync_percentage |-> sync_percentage]

\* verify_sync, lines 210-229 and 295, on the two fetched collections
VerifyResult(jamf_serials, snipe_assets) ==
    LET missing_from_snipe == { x \in jamf_serials : x \notin snipe_assets }
        extra_in_snipe == { x \in snipe_assets : x \notin jamf_serials }
        total_jamf == Cardinality(jamf_serials)
        synced == total_jamf - Cardinality(missing_from_snipe)
        sync_percentage == Percentage(synced, total_jamf)
    IN  [kind |-> "verify",
         ret |-> IF sync_percentage = 10000 THEN "True" ELSE "False",
         exit |-> IF sync_percentage = 10000 THEN 0 ELSE 1,
         jamf_serials |-> jamf_serials, snipe_assets |-> snipe_assets,
         missing_from_snipe |-> missing_from_snipe,
         extra_in_snipe |-> extra_in_snipe,
         synced |-> synced, sync_percentage |-> sync_percentage]

VAssets_dropping_extras ==
    /\ prog = "verify"
    /\ pc = "assets"
    /\ \E o \in Plain :
        /\ Fault(o)
        /\ LET snipe_assets == IF o = "ok"
                               THEN { a.serial : a \in { x \in assets : Truthy(x.serial) } }
                               ELSE {}
           IN  /\ report' = VerifyResult(loc.jamf_serials, snipe_assets)
               /\ assets' = { a \in assets :
                                a.serial \in loc.jamf_serials \/ a.serial \notin snipe_assets }
    /\ pc' = "done"
    /\ callReqs' = Append(callReqs, "GET hardware")
    /\ UNCHANGED <<nextId, models, nextModelId, source, prog, runs, devices, stats,
                   model_cache, user_cache, loc, req, attempt, resp, calls, vlog,
                   scenario>>

\* get_all_snipe_assets, lines 137-182 (the keys of the dict), then the report
VAssets ==
    /\ prog = "verify"
    /\ pc = "assets"
    /\ \E o \in Plain :
        /\ Fault(o)
        /\ LET snipe_assets == IF o = "ok"
                               THEN { a.serial : a \in { x \in assets : Truthy(x.serial) } }
                               ELSE {}
           IN  report' = VerifyResult(loc.jamf_serials, snipe_assets)
    /\ pc' = "done"
    /\ callReqs' = Append(callReqs, "GET hardware")
    /\ UNCHANGED <<target, source, prog, runs, devices, stats, model_cache,
                   user_cache, loc, req, attempt, resp, calls, vlog, scenario>>

----
\* cleanup-and-sync-100-percent.py

\* a plain requests call whose status is not checked: answered as asked,
\* answered with a JSON error body, or an exception
Unchecked == {"ok", "errbody", "error"}

\* what the operator types at the prompt
Answers == {"yes", "YES", "Yes", "no", "y", ""}

RECURSIVE ById(_)
ById(as) ==
    IF as = {} THEN <<>>
    ELSE LET a == CHOOSE x \in as : \A y \in as : x.id <= y.id
         IN  <<a>> \o ById(as \ {a})

StartClean ==
    /\ prog = "idle"
    /\ runs < MaxRuns
    /\ prog' = "clean"
    /\ pc' = "token"
    /\ runs' = runs + 1
    /\ devices' = <<>>
    /\ stats' = NoStats
    /\ model_cache' = NoCache
    /\ user_cache' = NoCache
    /\ loc' = [NoLoc EXCEPT !.assets0 = assets]
    /\ callReqs' = <<>>
    /\ calls' = <<>>
    /\ vlog' = <<>>
    /\ report' = NoReport
    /\ Idle
    /\ scenario' = IF scenario = 3 /\ faults = 0 THEN 4 ELSE 0
    /\ UNCHANGED <<target, source, faults>>

\* an exception leaves main: the handler at the bottom exits with 1
Crash ==
    /\ pc' = "done"
    /\ report' = [kind |-> "clean", crashed |-> TRUE, exit |-> 1,
                  missing_from_snipe |-> {}, extra_in_snipe |-> {},
                  accuracy |-> 0, perfect |-> FALSE]
    /\ scenario' = 0

\* get_jamf_token, lines 37-50
CToken ==
    /\ prog = "clean"
    /\ pc = "token"
    /\ \E o \in Plain :
        /\ Fault(o)
        /\ IF o = "ok"
           THEN pc' = "computers" /\ UNCHANGED <<report, scenario>>
           ELSE Crash
    /\ callReqs' = Append(callReqs, "POST oauth/token")
    /\ UNCHANGED <<target, source, prog, runs, devices, stats, model_cache,
                   user_cache, loc, req, attempt, resp, calls, vlog>>

\* get_jamf_serials, lines 57-68
CComputers ==
    /\ prog = "clean"
    /\ pc = "computers"
    /\ \E o \in Unchecked :
        /\ Fault(o)
        /\ IF o = "error"
           THEN Crash /\ UNCHANGED loc
           ELSE /\ loc' = [loc EXCEPT !.jamf_serials =
                              IF o = "ok"
                              THEN @ \cup { x \in jamf \ MobileSerials : Truthy(x) }
                              ELSE @]
                /\ pc' = "mobiles"
                /\ UNCHANGED <<report, scenario>>
    /\ callReqs' = Append(callReqs, "GET computers-inventory")
    /\ UNCHANGED <<target, source, prog, runs, devices, stats, model_cache,
                   user_cache, req, attempt, resp, calls, vlog>>

\* get_jamf_serials, lines 70-83
CMobiles ==
    /\ prog = "clean"
    /\ pc = "mobiles"
    /\ \E o \in Unchecked :
        /\ Fault(o)
        /\ IF o = "error"
           THEN Crash /\ UNCHANGED loc
           ELSE /\ loc' = [loc EXCEPT !.jamf_serials =
                              IF o = "ok"
                              THEN @ \cup { x \in jamf \cap MobileSerials : Truthy(x) }
                              ELSE @]
                /\ pc' = "intune"
                /\ UNCHANGED <<report, scenario>>
    /\ callReqs' = Append(callReqs, "GET mobile-devices")
    /\ UNCHANGED <<target, source, prog, runs, devices, stats, model_cache,
                   user_cache, req, attempt, resp, calls, vlog>>

\* get_intune_serials, lines 85-89
CIntune ==
    /\ prog = "clean"
    /\ pc = "intune"
    /\ \E o \in Plain :
        /\ Fault(o)
        /\ IF o = "error"
           THEN Crash /\ UNCHANGED loc
           ELSE /\ loc' = [loc EXCEPT !.intune_serials = { x \in intune : Truthy(x) }]
                /\ pc' = "snipe"
                /\ UNCHANGED <<report, scenario>>
    /\ UNCHANGED <<target, source, prog, runs, devices, stats, model_cache,
                   user_cache, req, attempt, resp, callReqs, calls, vlog>>

ToDelete_enrolled(snipe_devices, mdm_serials) ==
    SelectSeq(ById(snipe_devices),
              LAMBDA device : Truthy(device.serial) /\ device.serial \in mdm_serials)

\* main, lines 172-182
ToDelete(snipe_devices, mdm_serials) ==
    SelectSeq(ById(snipe_devices),
              LAMBDA device : Truthy(device.serial) /\ device.serial \notin mdm_serials)

\* get_snipe_devices, lines 91-123, and main, lines 159-186 and 214-215
CSnipe ==
    /\ prog = "clean"
    /\ pc = "snipe"
    /\ \E o \in Unchecked :
        /\ Fault(o)
        /\ IF o = "error"
           THEN Crash /\ UNCHANGED loc
           ELSE LET snipe_devices == IF o = "ok" THEN assets ELSE {}
                    mdm_serials == loc.jamf_serials \cup loc.intune_serials
                    to_delete == ToDelete(snipe_devices, mdm_serials)
                IN  /\ loc' = [loc EXCEPT !.snipe_devices = snipe_devices,
                                          !.to_delete = to_delete]
                    /\ pc' = IF Len(to_delete) > 0 THEN "prompt" ELSE "final"
                    /\ UNCHANGED <<report, scenario>>
    /\ callReqs' = Append(callReqs, "GET hardware")
    /\ UNCHANGED <<target, source, prog, runs, devices, stats, model_cache,
                   user_cache, req, attempt, resp, calls, vlog>>

Confirmed_unless_no(answer) == lower(answer) # "no"

\* main, lines 194-196 and 212-213
Confirmed(answer) == lower(answer) = "yes"

CPrompt ==
    /\ prog = "clean"
    /\ pc = "prompt"
    /\ \E answer \in Answers :
        /\ loc' = [loc EXCEPT !.answer = answer]
        /\ pc' = IF Confirmed(answer) THEN "delete" ELSE "final"
    /\ UNCHANGED <<target, source, prog, runs, devices, stats, model_cache,
                   user_cache, req, attempt, resp, faults, callReqs, calls, vlog,
                   report, scenario>>

\* the DELETE is answered 200, answered otherwise, or raises
DeleteOutcomes == {"ok", "refused", "error"}

\* main, lines 201-211, one round of the loop with delete_device
CDelete ==
    /\ prog = "clean"
    /\ pc = "delete"
    /\ IF loc.idx < Len(loc.to_delete)
       THEN \E o \in DeleteOutcomes :
              LET dev == loc.to_delete[loc.idx + 1]
              IN  /\ Fault(o)
                  /\ callReqs' = Append(callReqs, "DELETE hardware")
                  /\ assets' = IF o = "ok"
                               THEN { a \in assets : a.id # dev.id } ELSE assets
                  /\ IF o = "error"
                     THEN /\ Crash
                          /\ loc' = [loc EXCEPT !.delete_sent = @ + 1]
                     ELSE /\ loc' = [loc EXCEPT !.idx = @ + 1,
                                        !.delete_sent = @ + 1,
                                        !.deleted = IF o = "ok" THEN @ + 1 ELSE @,
                                        !.failed = IF o = "ok" THEN @ ELSE @ + 1]
                          /\ UNCHANGED <<pc, report, scenario>>
       ELSE /\ pc' = "final"
            /\ UNCHANGED <<assets, loc, faults, callReqs, report, scenario>>
    /\ UNCHANGED <<nextId, models, nextModelId, source, prog, runs, devices,
                   stats, model_cache, user_cache, req, attempt, resp, calls, vlog>>

\* main, lines 221-268
CFinal ==
    /\ prog = "clean"
    /\ pc = "final"
    /\ \E o \in Unchecked :
        /\ Fault(o)
        /\ IF o = "error"
           THEN Crash
           ELSE LET snipe_devices_after == IF o = "ok" THEN assets ELSE {}
                    snipe_serials_after ==
                        { d.serial : d \in { x \in snipe_devices_after : Truthy(x.serial) } }
                    mdm_serials == loc.jamf_serials \cup loc.intune_serials
                    missing_from_snipe == mdm_serials \ snipe_serials_after
                    extra_in_snipe == snipe_serials_after \ mdm_serials
                    accuracy == IF mdm_serials # {}
                                THEN Percentage(Cardinality(snipe_serials_after \cap mdm_serials),
                                                Cardinality(mdm_serials))
                                ELSE 0
                IN  /\ report' = [kind |-> "clean", crashed |-> FALSE, exit |-> 0,
                                  missing_from_snipe |-> missing_from_snipe,
                                  extra_in_snipe |-> extra_in_snipe,
                                  accuracy |-> accuracy,
                                  perfect |-> accuracy = 10000 /\ extra_in_snipe = {}]
                    /\ pc' = "done"
                    /\ scenario' = IF scenario = 4 /\ o = "ok" /\ faults = 0
                                      /\ loc.answer \in {"yes", "YES", "Yes"}
                                   THEN 5 ELSE 0
    /\ callReqs' = Append(callReqs, "GET hardware")
    /\ UNCHANGED <<target, source, prog, runs, devices, stats, model_cache,
                   user_cache, loc, req, attempt, resp, calls, vlog>>

----
\* The source changes between two runs: a device leaves Jamf

Unenroll ==
    /\ prog = "idle"
    /\ runs > 0
    /\ \E x \in jamf :
        /\ jamf' = jamf \ {x}
        /\ scenario' = IF scenario = 2 /\ x = "A" THEN 3 ELSE 0
    /\ UNCHANGED <<target, intune, prog, pc, runs, devices, stats, model_cache,
                   user_cache, loc, req, attempt, resp, faults, callReqs, calls,
                   vlog, report>>

----
Init ==
    /\ \E present \in {{}, {"B"}, Serials} :
        assets = { [id |-> i, serial |-> x, user |-> 0] :
                   <<i, x>> \in { <<1, "A">>, <<2, "B">>, <<3, "C">> } \cap
                                (1..3) \X present }
    /\ nextId = 4
    /\ models = {}
    /\ nextModelId = 1
    /\ jamf = Serials
    /\ intune = {"C"}
    /\ prog = "idle"
    /\ pc = "none"
    /\ runs = 0
    /\ devices = <<>>
    /\ stats = NoStats
    /\ model_cache = NoCache
    /\ user_cache = NoCache
    /\ loc = NoLoc
    /\ req = NoReq
    /\ attempt = 0
    /\ resp = Pending
    /\ faults = 0
    /\ callReqs = <<>>
    /\ calls = <<>>
    /\ vlog = <<>>
    /\ report = NoReport
    /\ scenario = 0

Next ==
    \/ StartSync \/ ProcessNext \/ HttpAttempt \/ ModelSearchDone
    \/ ModelCreateDone \/ LookupDone \/ UpdateDone \/ CreateDone
    \/ UserSearchDone \/ CheckoutDone \/ BatchesDone \/ VerifyStep
    \/ VerifyLookupDone \/ Exit
    \/ StartVerify \/ VToken \/ VComputers \/ VMobiles \/ VAssets
    \/ StartClean \/ CToken \/ CComputers \/ CMobiles \/ CIntune \/ CSnipe
    \/ CPrompt \/ CDelete \/ CFinal
    \/ Unenroll

Spec == Init /\ [][Next]_vars

TypeOK ==
    /\ prog \in {"idle", "sync", "verify", "clean", "classify", "kandji", "bulletproof",
                "wipe", "aggressive", "groups"}
    /\ faults \in 0..MaxFaults
    /\ attempt \in 0..(MAX_RETRIES - 1)

----
\* The classifier on its own: determine_category_from_prestage applied to one
\* record whose four fields are drawn from the sets below

PrestageWords ==
    {"Student", "sTUDENT", "Loaner", "SSC", "Staff", "Employee", "iPads",
     "Kiosk iPad", "Check-In", "Apple TV", "Teacher iPad", "Lab"}

\* prestage names of up to n words
RECURSIVE Phrases(_)
Phrases(n) ==
    IF n = 0 THEN {""}
    ELSE LET shorter == Phrases(n - 1)
         IN  shorter \cup { IF p = "" THEN w ELSE p \o " " \o w :
                             <<p, w>> \in shorter \X PrestageWords }

ClassifierInputs ==
    [serial_number : {"A"},
     prestage_name : Phrases(MaxWords) \cup {None},
     device_name : {None, "", "Front Desk", "IT-044", "SSC-3"},
     email : {None, "", "kim@student.wic.ca", "lee@wic.ca"},
     model : {None, "", "MacBook Air", "iPad", "Apple TV"}]

ClassifyInit ==
    /\ assets = {}
    /\ nextId = 1
    /\ models = {}
    /\ nextModelId = 1
    /\ jamf = {}
    /\ intune = {}
    /\ prog = "classify"
    /\ pc = "call"
    /\ runs = 0
    /\ devices = <<>>
    /\ stats = NoStats
    /\ model_cache = NoCache
    /\ user_cache = NoCache
    /\ \E d \in ClassifierInputs : loc = [NoLoc EXCEPT !.device = d]
    /\ req = NoReq
    /\ attempt = 0
    /\ resp = Pending
    /\ faults = 0
    /\ callReqs = <<>>
    /\ calls = <<>>
    /\ vlog = <<>>
    /\ report = NoReport
    /\ scenario = 0

\* the call of lines 530-535 and its return value
Classify ==
    /\ prog = "classify"
    /\ pc = "call"
    /\ LET d == loc.device
           category == determine_category_from_prestage(
                           d.prestage_name, d.device_name, d.email, d.model)
       IN  /\ loc' = [loc EXCEPT !.category_id = category.id]
           /\ report' = [kind |-> "category", category |-> category]
    /\ pc' = "done"
    /\ UNCHANGED <<target, source, prog, runs, devices, stats, model_cache,
                   user_cache, req, attempt, resp, faults, callReqs, calls,
                   vlog, scenario>>

ClassifyNext == Classify

ClassifySpec == ClassifyInit /\ [][ClassifyNext]_vars

Classified == prog = "classify" /\ pc = "done"

----
\* kandji-snipe-sync/kandji_to_snipeit_sync.py: main and sync_device_to_snipeit.
\* The script sends plain requests, one per step; the answer to each is the
\* world's choice.

KandjiDevices == { d \in DeviceRecords : Truthy(d.serial_number) }

\* the lists fetch_kandji_devices can return
KandjiLists == UNION { [1..n -> KandjiDevices] : n \in 0..MaxDevices }

\* 200; 429 and another 4xx/5xx, which raise_for_status turns into HTTPError;
\* a connection error or timeout, which is no HTTPError
KandjiOutcomes == {"ok", "429", "http_error", "error"}

KandjiInit ==
    /\ \E present \in {{}, {"B"}} :
        assets = { [id |-> 2, serial |-> x, user |-> 0] : x \in present }
    /\ nextId = 4
    /\ models = {[id |-> 1, name |-> "MacBook Air"]}
    /\ nextModelId = 2
    /\ jamf = {}
    /\ intune = {}
    /\ prog = "kandji"
    /\ pc = "for"
    /\ runs = 0
    /\ devices \in KandjiLists
    /\ stats = NoStats
    /\ model_cache = NoCache
    /\ user_cache = NoCache
    /\ loc = NoLoc
    /\ req = NoReq
    /\ attempt = 0
    /\ resp = Pending
    /\ faults = 0
    /\ callReqs = <<>>
    /\ calls = <<>>
    /\ vlog = <<>>
    /\ report = NoReport
    /\ scenario = 0

\* lines 120-122: the for loop takes the next device
KandjiFor ==
    /\ prog = "kandji"
    /\ pc = "for"
    /\ loc.idx < Len(devices)
    /\ loc' = [NoLoc EXCEPT !.idx = loc.idx + 1, !.device = devices[loc.idx + 1]]
    /\ pc' = "while"
    /\ UNCHANGED <<target, source, prog, runs, devices, stats, model_cache,
                   user_cache, req, attempt, resp, faults, callReqs, calls,
                   vlog, report, scenario>>

\* line 123: while not success and retries < 5; when the loop ends the for
\* loop goes on, whether the device was synced or not, and nothing is printed
KandjiWhile ==
    /\ prog = "kandji"
    /\ pc = "while"
    /\ IF ~loc.success /\ loc.retries < 5
       THEN /\ pc' = "get_model_id"
            /\ UNCHANGED calls
       ELSE /\ pc' = "for"
            /\ calls' = Append(calls, [device |-> loc.device, success |-> loc.success,
                                       retries |-> loc.retries, reported |-> "none"])
    /\ UNCHANGED <<target, source, prog, runs, devices, stats, model_cache,
                   user_cache, loc, req, attempt, resp, faults, callReqs,
                   vlog, report, scenario>>

\* lines 127-134: the except clause of main for an answer that is not 200
KandjiExcept(o) ==
    IF o = "429"
    THEN /\ loc' = [loc EXCEPT !.retries = @ + 1]
         /\ pc' = "while"
         /\ UNCHANGED <<calls, report>>
    ELSE /\ pc' = "crashed"
         /\ report' = [kind |-> "kandji", complete |-> FALSE, traceback |-> o]
         /\ UNCHANGED <<loc, calls>>

\* get_model_id, lines 103-113, and lines 72-74 after it
KandjiModel ==
    /\ prog = "kandji"
    /\ pc = "get_model_id"
    /\ \E o \in KandjiOutcomes :
        IF o = "ok"
        THEN LET rows == RowsModels(loc.device.model)
             IN  IF rows = {}
                 THEN /\ loc' = [loc EXCEPT !.success = TRUE]
                      /\ pc' = "while"
                      /\ UNCHANGED <<calls, report>>
                 ELSE /\ loc' = [loc EXCEPT !.model_id = MinId(rows)]
                      /\ pc' = "search"
                      /\ UNCHANGED <<calls, report>>
        ELSE KandjiExcept(o)
    /\ UNCHANGED <<target, source, prog, runs, devices, stats, model_cache,
                   user_cache, req, attempt, resp, faults, callReqs,
                   vlog, scenario>>

\* lines 76-79: the search for the serial
KandjiSearch ==
    /\ prog = "kandji"
    /\ pc = "search"
    /\ \E o \in KandjiOutcomes :
        IF o = "ok"
        THEN LET rows == RowsBySerial(loc.device.serial_number)
             IN  /\ \E id \in rows \cup {0} :
                      /\ (id = 0) = (rows = {})
                      /\ loc' = [loc EXCEPT !.asset_id = id, !.is_update = (id # 0)]
                 /\ pc' = "write"
                 /\ UNCHANGED <<calls, report>>
        ELSE KandjiExcept(o)
    /\ UNCHANGED <<target, source, prog, runs, devices, stats, model_cache,
                   user_cache, req, attempt, resp, faults, callReqs,
                   vlog, scenario>>

\* lines 88-100: PUT for a found asset, POST for a new one
KandjiWrite ==
    /\ prog = "kandji"
    /\ pc = "write"
    /\ \E o \in KandjiOutcomes :
        IF o = "ok"
        THEN /\ Applied([kind |-> IF loc.is_update THEN "PUT hardware" ELSE "POST hardware",
                         arg |-> loc.device.serial_number])
             /\ loc' = [loc EXCEPT !.success = TRUE]
             /\ pc' = "while"
             /\ UNCHANGED <<calls, report>>
        ELSE NotApplied /\ KandjiExcept(o)
    /\ UNCHANGED <<source, prog, runs, devices, stats, model_cache,
                   user_cache, req, attempt, resp, faults, callReqs,
                   vlog, scenario>>

\* line 135: the for loop is over
KandjiComplete ==
    /\ prog = "kandji"
    /\ pc = "for"
    /\ loc.idx = Len(devices)
    /\ pc' = "done"
    /\ report' = [kind |-> "kandji", complete |-> TRUE, traceback |-> "none"]
    /\ UNCHANGED <<target, source, prog, runs, devices, stats, model_cache,
                   user_cache, loc, req, attempt, resp, faults, callReqs, calls,
                   vlog, scenario>>

KandjiNext ==
    \/ KandjiFor \/ KandjiWhile \/ KandjiModel \/ KandjiSearch \/ KandjiWrite
    \/ KandjiComplete

KandjiSpec == KandjiInit /\ [][KandjiNext]_vars

----
\* jamf-to-snipe-bulletproof-100-percent.py: the sync loop of main, lines
\* 757-796, with the thread pool it submits process_device to.  loc holds
\* main's locals and the workers; req[w] is the request worker w has in
\* flight, a request standing for make_request_with_retry with its retries.

Workers == 1..MAX_WORKERS

\* line 741: only records with a serial number get into all_devices; the
\* email plays no part in create_or_update_asset; D is a second student
\* MacBook Air
PoolDevices ==
    { d \in DeviceRecords : Truthy(d.serial_number) /\ d.email # "lee@wic.ca" }
    \cup { [serial_number |-> "D", device_name |-> "D",
            prestage_name |-> "Student Macs", email |-> "", model |-> "MacBook Air"] }

\* determine_category_from_prestage, lines 401-439, and
\* determine_mobile_category, lines 441-450, of the bulletproof sync: the id
\* of device_info['category']
pool_category(d) ==
    LET prestage_lower == lower(d.prestage_name)
        email == lower(d.email)
        device_name == lower(d.device_name)
        model_lower == lower(d.model)
    IN  IF d.serial_number \in MobileSerials
        THEN IF d.model # "" /\ (In("appletv", model_lower) \/ In("apple tv", model_lower))
             THEN 11 ELSE 15
        ELSE IF d.prestage_name # ""
                /\ (In("student", prestage_lower) \/ In("loaner", prestage_lower))
        THEN 12
        ELSE IF d.prestage_name # "" /\ In("ssc", prestage_lower) THEN 13
        ELSE IF d.prestage_name # ""
                /\ (In("staff", prestage_lower) \/ In("teacher", prestage_lower)
                    \/ In("employee", prestage_lower))
        THEN 16
        ELSE IF email # "" /\ In("student", email) THEN 12
        ELSE IF In("student", device_name) \/ In("loaner", device_name) THEN 12
        ELSE IF In("ssc", device_name) THEN 13
        ELSE 16

\* the key of the lru_cache of get_or_create_model, line 455: its arguments;
\* the headers are the same in every call
PoolKey(d) == <<d.model, pool_category(d)>>

\* all_devices: every device of the inventory once
PoolLists ==
    UNION { { ds \in [1..n -> PoolDevices] :
                \A i, j \in 1..n : ds[i] = ds[j] => i = j } : n \in 1..MaxDevices }

NoWorker == [pc |-> "idle", device |-> NoDevice, model_id |-> 0, asset_id |-> 0]

NoRequests == [w \in Workers |-> NoReq]

WriteKinds == {"POST models", "POST hardware", "PUT hardware"}

PoolInit ==
    /\ \E present \in {{}, {"B"}} :
        assets = { [id |-> 2, serial |-> x, user |-> 0] : x \in present }
    /\ nextId = 4
    /\ models = {}
    /\ nextModelId = 1
    /\ jamf = {}
    /\ intune = {}
    /\ prog = "bulletproof"
    /\ pc = "submit"
    /\ runs = 0
    /\ devices \in PoolLists
    /\ stats = NoStats
    /\ model_cache = NoCache
    /\ user_cache = NoCache
    /\ loc = [attempt |-> 0, queue |-> <<>>, failed_devices |-> <<>>,
              success_count |-> 0, workers |-> [w \in Workers |-> NoWorker],
              creates |-> <<>>]
    /\ req = NoRequests
    /\ attempt = 0
    /\ resp = Pending
    /\ faults = 0
    /\ callReqs = <<>>
    /\ calls = <<>>
    /\ vlog = <<>>
    /\ report = NoReport
    /\ scenario = 0

\* line 771: max_workers of the pool of this attempt
max_workers == IF loc.attempt > 0 THEN MAX_WORKERS \div 2 ELSE MAX_WORKERS

\* lines 764-776: devices_to_process is submitted to a new pool
PoolSubmit ==
    /\ prog = "bulletproof"
    /\ pc = "submit"
    /\ loc' = [loc EXCEPT !.queue = IF loc.attempt = 0 THEN devices ELSE loc.failed_devices,
                          !.failed_devices = <<>>]
    /\ pc' = "pool"
    /\ UNCHANGED <<target, source, prog, runs, devices, stats, model_cache,
                   user_cache, req, attempt, resp, faults, callReqs, calls,
                   vlog, report, scenario>>

\* the task of worker w, which ran process_device for device, returns
\* result; main's as_completed loop, lines 778-791, counts it
PoolReturn(l, w, device, result) ==
    /\ loc' = [l EXCEPT !.workers[w] = NoWorker,
                        !.success_count = IF result /\ l.attempt = 0 THEN @ + 1 ELSE @,
                        !.failed_devices = IF result THEN @ ELSE Append(@, device)]
    /\ req' = [req EXCEPT ![w] = NoReq]
    /\ UNCHANGED calls

PoolResult(w, result) == PoolReturn(loc, w, loc.workers[w].device, result)

PoolSendFrom(l, w, kind, arg, wpc, wk) ==
    /\ loc' = [l EXCEPT !.workers[w] = [wk EXCEPT !.pc = wpc]]
    /\ req' = [req EXCEPT ![w] = [kind |-> kind, arg |-> arg, hit |-> FALSE]]
    /\ UNCHANGED calls

PoolSend(w, kind, arg, wpc, wk) == PoolSendFrom(loc, w, kind, arg, wpc, wk)

\* lru_cache, line 455: a call whose arguments are in the cache returns the
\* stored value, None included, without running get_or_create_model
CacheLookup(key) == key \in DOMAIN model_cache

\* a free thread of the pool takes the next submitted task and runs
\* process_device up to its first request, lines 643-653, 572-592 and 456-470
PoolTake ==
    /\ prog = "bulletproof"
    /\ pc = "pool"
    /\ Len(loc.queue) > 0
    /\ \E w \in 1..max_workers :
        /\ loc.workers[w].pc = "idle"
        /\ \A v \in 1..(w - 1) : loc.workers[v].pc # "idle"
        /\ LET d == Head(loc.queue)
               l == [loc EXCEPT !.queue = Tail(@)]
               wk == [NoWorker EXCEPT !.device = d]
           IN  IF CacheLookup(PoolKey(d))
               THEN IF model_cache[PoolKey(d)] = 0
                    THEN PoolReturn(l, w, d, FALSE)
                    ELSE PoolSendFrom(l, w, "GET byserial", d.serial_number, "byserial",
                                      [wk EXCEPT !.model_id = model_cache[PoolKey(d)]])
               ELSE PoolSendFrom(l, w, "GET models", d.model, "model_search", wk)
    /\ UNCHANGED <<target, source, prog, pc, runs, devices, stats, model_cache,
                   user_cache, attempt, resp, faults, callReqs, calls,
                   vlog, report, scenario>>

\* make_request_with_retry returns a 200 answer; returns an answer that is
\* not 200, or None after five 429 answers; raises after five failed attempts
PoolOutcomes == {"ok", "refused", "raised"}

PoolFault(o) ==
    /\ o # "ok" => faults < MaxFaults
    /\ faults' = IF o = "ok" THEN faults ELSE faults + 1

\* get_or_create_model, lines 472-476: the search is answered
PoolModelSearchDone ==
    /\ prog = "bulletproof"
    /\ \E w \in Workers, o \in PoolOutcomes :
        LET wk == loc.workers[w]
            hits == { m \in RowsModels(wk.device.model) : m.name = wk.device.model }
        IN  /\ wk.pc = "model_search"
            /\ PoolFault(o)
            /\ IF o = "raised"
               THEN /\ PoolResult(w, FALSE)
                    /\ model_cache' = Put(model_cache, PoolKey(wk.device), 0)
               ELSE IF o = "ok" /\ hits # {}
               THEN /\ PoolSend(w, "GET byserial", wk.device.serial_number, "byserial",
                                [wk EXCEPT !.model_id = MinId(hits)])
                    /\ model_cache' = Put(model_cache, PoolKey(wk.device), MinId(hits))
               ELSE /\ PoolSendFrom([loc EXCEPT !.creates = Append(@, PoolKey(wk.device))],
                                    w, "POST models", wk.device.model, "model_create", wk)
                    /\ UNCHANGED model_cache
    /\ UNCHANGED <<target, source, prog, pc, runs, devices, stats,
                   user_cache, attempt, resp, vlog, report, callReqs, scenario>>

\* get_or_create_model, lines 487-502: the create is answered
PoolModelCreateDone ==
    /\ prog = "bulletproof"
    /\ \E w \in Workers, o \in PoolOutcomes :
        LET wk == loc.workers[w]
        IN  /\ wk.pc = "model_create"
            /\ PoolFault(o)
            /\ IF o = "ok"
               THEN /\ Applied(req[w])
                    /\ PoolSend(w, "GET byserial", wk.device.serial_number, "byserial",
                                [wk EXCEPT !.model_id = nextModelId])
                    /\ model_cache' = Put(model_cache, PoolKey(wk.device), nextModelId)
               ELSE /\ NotApplied
                    /\ PoolResult(w, FALSE)
                    /\ model_cache' = Put(model_cache, PoolKey(wk.device), 0)
    /\ UNCHANGED <<source, prog, pc, runs, devices, stats,
                   user_cache, attempt, resp, vlog, report, callReqs, scenario>>

\* create_or_update_asset, lines 593-625: the lookup is answered
PoolLookupDone ==
    /\ prog = "bulletproof"
    /\ \E w \in Workers, o \in PoolOutcomes :
        LET wk == loc.workers[w]
            rows == RowsBySerial(wk.device.serial_number)
        IN  /\ wk.pc = "byserial"
            /\ PoolFault(o)
            /\ IF o = "raised"
               THEN PoolResult(w, FALSE)
               ELSE IF o = "ok" /\ rows # {}
               THEN \E id \in rows :
                        PoolSend(w, "PUT hardware", id, "write", [wk EXCEPT !.asset_id = id])
               ELSE PoolSend(w, "POST hardware", wk.device.serial_number, "write", wk)
    /\ UNCHANGED <<target, source, prog, pc, runs, devices, stats, model_cache,
                   user_cache, attempt, resp, vlog, report, callReqs, scenario>>

\* create_or_update_asset, lines 627-637: the PUT or POST is answered
PoolWriteDone ==
    /\ prog = "bulletproof"
    /\ \E w \in Workers, o \in PoolOutcomes :
        /\ loc.workers[w].pc = "write"
        /\ PoolFault(o)
        /\ IF o = "ok" THEN Applied(req[w]) ELSE NotApplied
        /\ PoolResult(w, o = "ok")
    /\ UNCHANGED <<source, prog, pc, runs, devices, stats, model_cache,
                   user_cache, attempt, resp, vlog, report, callReqs, scenario>>

\* the with block ends when every task has returned; lines 793-796 and 798-816
PoolJoin ==
    /\ prog = "bulletproof"
    /\ pc = "pool"
    /\ Len(loc.queue) = 0
    /\ \A w \in Workers : loc.workers[w].pc = "idle"
    /\ IF Len(loc.failed_devices) = 0 \/ loc.attempt + 1 = max_sync_attempts
       THEN /\ pc' = "done"
            /\ loc' = loc
            /\ report' = [kind |-> "bulletproof", success_count |-> loc.success_count,
                          failed |-> Len(loc.failed_devices)]
       ELSE /\ pc' = "submit"
            /\ loc' = [loc EXCEPT !.attempt = @ + 1]
            /\ UNCHANGED report
    /\ UNCHANGED <<target, source, prog, runs, devices, stats, model_cache,
                   user_cache, req, attempt, resp, faults, callReqs, calls,
                   vlog, scenario>>

PoolNext ==
    \/ PoolSubmit \/ PoolTake \/ PoolModelSearchDone \/ PoolModelCreateDone
    \/ PoolLookupDone \/ PoolWriteDone \/ PoolJoin

PoolSpec == PoolInit /\ [][PoolNext]_vars

----
\* Ultimate sync from the start of the process: main and __main__

\* the locals of main before the device loop
MainLoc == [token |-> "<unset>", computers |-> <<>>, mobile_devices |-> <<>>,
            i |-> 0]

\* the process starts with any inventory in the source
MainInit ==
    /\ \E present \in {{}, {"B"}, Serials} :
        assets = { [id |-> i, serial |-> x, user |-> 0] :
                   <<i, x>> \in { <<1, "A">>, <<2, "B">>, <<3, "C">> } \cap
                                (1..3) \X present }
    /\ nextId = 4
    /\ models = {}
    /\ nextModelId = 1
    /\ jamf \in { S \in SUBSET (Serials \cup {""}) : Cardinality(S) <= MaxDevices }
    /\ intune = {}
    /\ prog = "sync"
    /\ pc = "token"
    /\ runs = 1
    /\ devices = <<>>
    /\ stats = NoStats
    /\ model_cache = NoCache
    /\ user_cache = NoCache
    /\ loc = MainLoc
    /\ req = NoReq
    /\ attempt = 0
    /\ resp = Pending
    /\ faults = 0
    /\ callReqs = <<>>
    /\ calls = <<>>
    /\ vlog = <<>>
    /\ report = NoReport
    /\ scenario = 0

\* the report of a run that ends before print_summary
Aborted == [kind |-> "sync", fatal |-> TRUE, found |-> 0, missing |-> 0,
            total_devices |-> Len(devices), success_rate_100 |-> FALSE,
            exit |-> 1]

AfterToken_unchecked(token) == "computers"

\* lines 757-760: without a token main exits with code 1
AfterToken(token) == IF token = None THEN "done" ELSE "computers"

\* one round of the for loop of get_jamf_token, then lines 757-772 of main:
\* with a token, get_all_computers sends its request
MainToken ==
    /\ prog = "sync"
    /\ pc = "token"
    /\ \E o \in Plain :
        /\ o # "ok" => (attempt > 0 \/ faults < MaxFaults)
        /\ faults' = IF o = "ok" \/ attempt > 0 THEN faults ELSE faults + 1
        /\ IF o # "ok" /\ attempt < MAX_RETRIES - 1
           THEN /\ attempt' = attempt + 1
                /\ UNCHANGED <<pc, loc, req, resp, callReqs, report>>
           ELSE LET token == IF o = "ok" THEN "token" ELSE None
                IN  /\ loc' = [loc EXCEPT !.token = token]
                    /\ pc' = AfterToken(token)
                    /\ IF AfterToken(token) = "done"
                       THEN /\ report' = Aborted
                            /\ attempt' = 0
                            /\ UNCHANGED <<req, resp, callReqs>>
                       ELSE /\ Issue("GET computers", "")
                            /\ report' = report
    /\ UNCHANGED <<target, source, prog, runs, devices, stats, model_cache,
                   user_cache, calls, vlog, scenario>>

\* what get_all_computers and get_all_mobile_devices return: the page, or
\* the empty list when the page could not be fetched or read
Fetched == IF resp.st = "ok" THEN resp.body ELSE <<>>

\* get_all_computers returns, lines 190-217, and get_all_mobile_devices
\* sends its request
MainComputers ==
    /\ prog = "sync"
    /\ pc = "computers"
    /\ resp.st # "pending"
    /\ loc' = [loc EXCEPT !.computers = Fetched]
    /\ Issue("GET mobiles", "")
    /\ pc' = "mobiles"
    /\ UNCHANGED <<target, source, prog, runs, devices, stats, model_cache,
                   user_cache, faults, calls, vlog, report, scenario>>

\* get_all_mobile_devices returns, lines 231-257
MainMobiles ==
    /\ prog = "sync"
    /\ pc = "mobiles"
    /\ resp.st # "pending"
    /\ loc' = [loc EXCEPT !.mobile_devices = Fetched]
    /\ pc' = "details"
    /\ Idle
    /\ callReqs' = <<>>
    /\ UNCHANGED <<target, source, prog, runs, devices, stats, model_cache,
                   user_cache, faults, calls, vlog, report, scenario>>

\* the record get_computer_details and get_mobile_device_details build from
\* the detail of the source
JamfDetail(serial) == { d \in DeviceRecords : d.serial_number = serial }

\* lines 794-803 and 816-824: the record made of the inventory entry alone
Basic(serial) ==
    [serial_number |-> serial,
     device_name |-> IF serial \in MobileSerials THEN "Lobby iPad" ELSE serial,
     prestage_name |-> "", email |-> "",
     model |-> IF serial \in MobileSerials THEN "iPad" ELSE "MacBook Air"]

\* the two for loops of main, lines 780-831: an entry without a name is
\* passed over, the detail of any other is requested; after the last entry
\* lines 833-850
MainDetails ==
    /\ prog = "sync"
    /\ pc = "details"
    /\ LET entries == loc.computers \o loc.mobile_devices
       IN  IF loc.i < Len(entries)
           THEN IF Truthy(entries[loc.i + 1])
                THEN /\ Issue("GET detail", entries[loc.i + 1])
                     /\ pc' = "detail_wait"
                     /\ UNCHANGED <<loc, stats>>
                ELSE /\ loc' = [loc EXCEPT !.i = @ + 1]
                     /\ UNCHANGED <<pc, stats, req, attempt, resp, callReqs>>
           ELSE /\ stats' = [stats EXCEPT !.total_devices = Len(devices)]
                /\ pc' = "loop"
                /\ loc' = NoLoc
                /\ UNCHANGED <<req, attempt, resp, callReqs>>
    /\ UNCHANGED <<target, source, prog, runs, devices, model_cache, user_cache,
                   faults, calls, vlog, report, scenario>>

\* get_computer_details or get_mobile_device_details returns, lines 789-803
\* and 812-824
MainDetailsDone ==
    /\ prog = "sync"
    /\ pc = "detail_wait"
    /\ resp.st # "pending"
    /\ \E d \in IF resp.st = "ok" THEN JamfDetail(req.arg) ELSE {Basic(req.arg)} :
        devices' = Append(devices, d)
    /\ loc' = [loc EXCEPT !.i = @ + 1]
    /\ pc' = "details"
    /\ Idle
    /\ callReqs' = <<>>
    /\ UNCHANGED <<target, source, prog, runs, stats, model_cache, user_cache,
                   faults, calls, vlog, report, scenario>>

\* process_devices_in_batches, lines 643-647, over the list main gathered
MainProcessNext ==
    /\ prog = "sync"
    /\ pc = "loop"
    /\ Len(calls) < Len(devices)
    /\ CallSync(devices[Len(calls) + 1])
    /\ UNCHANGED <<target, source, prog, runs, devices, model_cache, user_cache,
                   faults, vlog, report, scenario>>

\* the operator interrupts the process: KeyboardInterrupt is raised where the
\* process stands, passes every except Exception, and is caught at lines
\* 871-874
Interrupt ==
    /\ prog = "sync"
    /\ pc \notin {"done", "interrupted"}
    /\ pc' = "interrupted"
    /\ report' = Aborted
    /\ UNCHANGED <<target, source, prog, runs, devices, stats, model_cache,
                   user_cache, loc, req, attempt, resp, faults, callReqs, calls,
                   vlog, scenario>>

MainNext ==
    \/ MainToken \/ MainComputers \/ MainMobiles \/ MainDetails
    \/ MainDetailsDone \/ MainProcessNext \/ HttpAttempt \/ ModelSearchDone
    \/ ModelCreateDone \/ LookupDone \/ UpdateDone \/ CreateDone
    \/ UserSearchDone \/ CheckoutDone \/ BatchesDone \/ VerifyStep
    \/ VerifyLookupDone \/ Interrupt

MainSpec == MainInit /\ [][MainNext]_vars

----
\* ultimate-wipe-snipe-100-percent.py

\* limit of the hardware and models pages, lines 106 and 215
limit == 500

\* the rows of a page: at most lim rows after the first offset ones, the rows
\* taken by ascending id
PageOf(rows, offset, lim) ==
    LET place == [a \in rows |-> Cardinality({ b \in rows : b.id < a.id }) + 1]
        last == IF offset + lim < Cardinality(rows) THEN offset + lim
                ELSE Cardinality(rows)
    IN  [k \in 1..(IF last > offset THEN last - offset ELSE 0) |->
            CHOOSE a \in rows : place[a] = offset + k]

IdsOf(rows) == [k \in 1..Len(rows) |-> rows[k].id]

\* what the operator types at the second prompt
Texts == {"WIPE EVERYTHING CLEAN", "wipe everything clean", "WIPE EVERYTHING", "yes", ""}

WipeLoc == [confirm1 |-> "<unasked>", confirm2 |-> "<unasked>", sent |-> 0,
            all |-> <<>>, page |-> 0, i |-> 0, deleted_count |-> 0,
            failed_count |-> 0, success |-> TRUE]

WipeInit ==
    /\ \E present \in {{}, {"B"}, Serials} :
        assets = { [id |-> i, serial |-> x, user |-> 0] :
                   <<i, x>> \in { <<1, "A">>, <<2, "B">>, <<3, "C">> } \cap
                                (1..3) \X present }
    /\ nextId = 4
    /\ \E names \in {{}, {"MacBook Air"}} :
        models = { [id |-> 1, name |-> x] : x \in names }
    /\ nextModelId = 2
    /\ jamf = {}
    /\ intune = {}
    /\ prog = "wipe"
    /\ pc = "confirm1"
    /\ runs = 1
    /\ devices = <<>>
    /\ stats = NoStats
    /\ model_cache = NoCache
    /\ user_cache = NoCache
    /\ loc = WipeLoc
    /\ req = NoReq
    /\ attempt = 0
    /\ resp = Pending
    /\ faults = 0
    /\ callReqs = <<>>
    /\ calls = <<>>
    /\ vlog = <<>>
    /\ report = NoReport
    /\ scenario = 0

WipeFrame ==
    UNCHANGED <<nextId, nextModelId, source, prog, runs, devices, stats,
                model_cache, user_cache, req, attempt, resp, callReqs, calls,
                vlog, scenario>>

\* the process of the wipe ends with this exit code
WipeExit(code, l) ==
    /\ pc' = "done"
    /\ loc' = l
    /\ report' = [kind |-> "wipe", exit |-> code]

\* the exit code of sys.exit on lines 330 and 335
CancelCode == 0

\* main, lines 327-330
WipeConfirm1 ==
    /\ prog = "wipe"
    /\ pc = "confirm1"
    /\ \E confirm1 \in Answers :
        LET l == [loc EXCEPT !.confirm1 = confirm1]
        IN  IF lower(confirm1) # "yes"
            THEN WipeExit(CancelCode, l)
            ELSE pc' = "confirm2" /\ loc' = l /\ UNCHANGED report
    /\ WipeFrame
    /\ UNCHANGED <<assets, models, faults>>

\* main, lines 332-335
WipeConfirm2 ==
    /\ prog = "wipe"
    /\ pc = "confirm2"
    /\ \E confirm2 \in Texts :
        LET l == [loc EXCEPT !.confirm2 = confirm2]
        IN  IF confirm2 # "WIPE EVERYTHING CLEAN"
            THEN WipeExit(CancelCode, l)
            ELSE pc' = "test" /\ loc' = l /\ UNCHANGED report
    /\ WipeFrame
    /\ UNCHANGED <<assets, models, faults>>

\* make_request_with_retry of the wipe, lines 61-98, sends a request and
\* returns a 200 answer; returns an answer that is not 200, or None after
\* five 429 answers; raises after five failed attempts
WipeSent(l) == [l EXCEPT !.sent = 1]

\* main, lines 344-349: the connection test
WipeTest ==
    /\ prog = "wipe"
    /\ pc = "test"
    /\ \E o \in PoolOutcomes :
        /\ PoolFault(o)
        /\ IF o = "ok"
           THEN pc' = "assets" /\ loc' = WipeSent(loc) /\ UNCHANGED report
           ELSE WipeExit(1, WipeSent(loc))
    /\ WipeFrame
    /\ UNCHANGED <<assets, models>>

\* one round of the while loop of get_all_assets_paginated, lines 108-139,
\* and delete_all_assets up to its for loop, lines 147-173
WipeAssetsPage ==
    /\ prog = "wipe"
    /\ pc = "assets"
    /\ \E o \in PoolOutcomes :
        LET rows == PageOf(assets, loc.page * limit, limit)
            all == loc.all \o IdsOf(rows)
        IN  /\ PoolFault(o)
            /\ IF o = "raised"
               THEN WipeExit(1, loc)
               ELSE IF o = "ok" /\ rows # <<>> /\ Len(all) < Cardinality(assets)
               THEN /\ pc' = pc
                    /\ loc' = [loc EXCEPT !.all = all, !.page = @ + 1]
                    /\ UNCHANGED report
               ELSE LET found == IF o = "ok" THEN all ELSE loc.all
                    IN  /\ pc' = IF found = <<>> THEN "models" ELSE "delete_assets"
                        /\ loc' = [loc EXCEPT !.all = found, !.page = 0]
                        /\ UNCHANGED report
    /\ WipeFrame
    /\ UNCHANGED <<assets, models>>

\* delete_all_assets: one round of the for loop, lines 176-200, and after the
\* last round lines 202-207 and 353-354 of main
WipeDeleteAsset ==
    /\ prog = "wipe"
    /\ pc = "delete_assets"
    /\ IF loc.i < Len(loc.all)
       THEN \E o \in PoolOutcomes :
               /\ PoolFault(o)
               /\ assets' = IF o = "ok"
                            THEN { a \in assets : a.id # loc.all[loc.i + 1] }
                            ELSE assets
               /\ loc' = [loc EXCEPT !.i = @ + 1,
                                     !.deleted_count = IF o = "ok" THEN @ + 1 ELSE @,
                                     !.failed_count = IF o = "ok" THEN @ ELSE @ + 1]
               /\ UNCHANGED pc
       ELSE /\ loc' = [loc EXCEPT !.all = <<>>, !.i = 0, !.deleted_count = 0,
                                  !.failed_count = 0,
                                  !.success = loc.failed_count = 0]
            /\ pc' = "models"
            /\ UNCHANGED <<assets, faults>>
    /\ WipeFrame
    /\ UNCHANGED <<models, report>>

\* one round of the while loop of get_all_models, lines 217-235, and
\* delete_all_models up to its for loop, lines 244-252
WipeModelsPage ==
    /\ prog = "wipe"
    /\ pc = "models"
    /\ \E o \in PoolOutcomes :
        LET rows == PageOf(models, loc.page * limit, limit)
        IN  /\ PoolFault(o)
            /\ IF o = "raised"
               THEN WipeExit(1, loc)
               ELSE IF o = "ok" /\ rows # <<>>
               THEN /\ pc' = pc
                    /\ loc' = [loc EXCEPT !.all = @ \o IdsOf(rows), !.page = @ + 1]
                    /\ UNCHANGED report
               ELSE /\ pc' = IF loc.all = <<>> THEN "verify" ELSE "delete_models"
                    /\ loc' = [loc EXCEPT !.page = 0]
                    /\ UNCHANGED report
    /\ WipeFrame
    /\ UNCHANGED <<assets, models>>

\* delete_all_models: one round of the for loop, lines 254-277, and after the
\* last round lines 279-283 and 357-358 of main
WipeDeleteModel ==
    /\ prog = "wipe"
    /\ pc = "delete_models"
    /\ IF loc.i < Len(loc.all)
       THEN \E o \in PoolOutcomes :
               /\ PoolFault(o)
               /\ models' = IF o = "ok"
                            THEN { m \in models : m.id # loc.all[loc.i + 1] }
                            ELSE models
               /\ loc' = [loc EXCEPT !.i = @ + 1,
                                     !.deleted_count = IF o = "ok" THEN @ + 1 ELSE @,
                                     !.failed_count = IF o = "ok" THEN @ ELSE @ + 1]
               /\ UNCHANGED pc
       ELSE /\ loc' = [loc EXCEPT !.all = <<>>, !.i = 0,
                                  !.success = @ /\ loc.failed_count = 0]
            /\ pc' = "verify"
            /\ UNCHANGED <<models, faults>>
    /\ WipeFrame
    /\ UNCHANGED <<assets, report>>

\* verify_cleanup, lines 285-308, and the rest of main, lines 362-385: a
\* count that was not answered with 200 leaves its variable unbound and line
\* 301 or 306 raises; main itself ends without sys.exit
WipeVerify ==
    /\ prog = "wipe"
    /\ pc = "verify"
    /\ \E o1 \in PoolOutcomes, o2 \in PoolOutcomes :
        LET bad == Cardinality({ k \in 1..2 : <<o1, o2>>[k] # "ok" })
        IN  /\ faults + bad <= MaxFaults
            /\ faults' = faults + bad
            /\ IF o1 = "ok" /\ o2 = "ok"
               THEN WipeExit(0, [loc EXCEPT !.success =
                                    @ /\ assets = {} /\ models = {}])
               ELSE WipeExit(1, loc)
    /\ WipeFrame
    /\ UNCHANGED <<assets, models>>

WipeNext ==
    \/ WipeConfirm1 \/ WipeConfirm2 \/ WipeTest \/ WipeAssetsPage
    \/ WipeDeleteAsset \/ WipeModelsPage \/ WipeDeleteModel \/ WipeVerify

WipeSpec == WipeInit /\ [][WipeNext]_vars

----
\* wipe-all-devices-aggressive.py

\* the numbers of assets the target holds when the script starts
InitialCounts == {0, 1, 2, 3, limit + 1}

\* what the operator types at the second prompt of the aggressive wipe
AggrTexts == {"WIPE EVERYTHING", "WIPE EVERYTHING CLEAN", "yes", ""}

\* line 83: max_retries of the delete loop
max_retries == 5

AggrLoc == [confirm1 |-> "<unasked>", confirm2 |-> "<unasked>", devices |-> <<>>,
            i |-> 0, success_count |-> 0, failed_count |-> 0, assets0 |-> 0]

AggrInit ==
    /\ \E n \in InitialCounts :
        /\ assets = { [id |-> i, serial |-> ToString(i), user |-> 0] : i \in 1..n }
        /\ nextId = n + 1
        /\ loc = [AggrLoc EXCEPT !.assets0 = n]
    /\ models = {}
    /\ nextModelId = 1
    /\ jamf = {}
    /\ intune = {}
    /\ prog = "aggressive"
    /\ pc = "fetch"
    /\ runs = 1
    /\ devices = <<>>
    /\ stats = NoStats
    /\ model_cache = NoCache
    /\ user_cache = NoCache
    /\ req = NoReq
    /\ attempt = 0
    /\ resp = Pending
    /\ faults = 0
    /\ callReqs = <<>>
    /\ calls = <<>>
    /\ vlog = <<>>
    /\ report = NoReport
    /\ scenario = 0

AggrFrame ==
    UNCHANGED <<nextId, models, nextModelId, source, prog, runs, devices, stats,
                model_cache, user_cache, resp, callReqs, calls, vlog, scenario>>

\* the function returns, or an exception ends the process
AggrEnd(how) ==
    /\ pc' = "done"
    /\ report' = [kind |-> "aggressive", how |-> how]

\* lines 29-46: the first page of at most 500 assets (params limit, line 33)
\* is read with a plain requests.get
AggrFetch ==
    /\ prog = "aggressive"
    /\ pc = "fetch"
    /\ \E o \in PoolOutcomes :
        /\ PoolFault(o)
        /\ IF o = "raised" THEN AggrEnd("raised") /\ UNCHANGED loc
           ELSE IF o = "refused" THEN AggrEnd("no list") /\ UNCHANGED loc
           ELSE IF assets = {} THEN AggrEnd("no devices") /\ UNCHANGED loc
           ELSE /\ loc' = [loc EXCEPT !.devices = IdsOf(PageOf(assets, 0, limit))]
                /\ pc' = "confirm1"
                /\ UNCHANGED report
    /\ AggrFrame
    /\ UNCHANGED <<assets, req, attempt>>

\* lines 60-63
AggrConfirm1 ==
    /\ prog = "aggressive"
    /\ pc = "confirm1"
    /\ \E confirm1 \in Answers :
        /\ loc' = [loc EXCEPT !.confirm1 = confirm1]
        /\ IF lower(confirm1) # "yes"
           THEN AggrEnd("cancelled")
           ELSE pc' = "confirm2" /\ UNCHANGED report
    /\ AggrFrame
    /\ UNCHANGED <<assets, req, attempt, faults>>

\* lines 65-68
AggrConfirm2 ==
    /\ prog = "aggressive"
    /\ pc = "confirm2"
    /\ \E confirm2 \in AggrTexts :
        /\ loc' = [loc EXCEPT !.confirm2 = confirm2]
        /\ IF confirm2 # "WIPE EVERYTHING"
           THEN AggrEnd("cancelled")
           ELSE pc' = "delete" /\ UNCHANGED report
    /\ AggrFrame
    /\ UNCHANGED <<assets, req, attempt, faults>>

\* what a DELETE is answered with: 200, 429, another status, or an exception
DeleteAnswers == {"ok", "429", "refused", "error"}

\* the device of the for loop is done with: lines 98-100, 107-109, 111-113
\* and 121-124
AggrNextDevice(counter) ==
    /\ loc' = [loc EXCEPT !.i = @ + 1, ![counter] = @ + 1]
    /\ attempt' = 0
    /\ req' = NoReq

\* one round of the retry loop of lines 86-124 for the device of the for
\* loop of line 77; after the last device lines 129-144, where the count of
\* the remaining assets is read with a plain requests.get when a device was
\* deleted
AggrDelete ==
    /\ prog = "aggressive"
    /\ pc = "delete"
    /\ IF loc.i < Len(loc.devices)
       THEN \E o \in DeleteAnswers :
               /\ o # "ok" => (req.hit \/ faults < MaxFaults)
               /\ faults' = IF o = "ok" \/ req.hit THEN faults ELSE faults + 1
               /\ assets' = IF o = "ok"
                            THEN { a \in assets : a.id # loc.devices[loc.i + 1] }
                            ELSE assets
               /\ IF o = "ok" THEN AggrNextDevice("success_count")
                  ELSE IF o = "refused" \/ attempt = max_retries - 1
                  THEN AggrNextDevice("failed_count")
                  ELSE /\ attempt' = attempt + 1
                       /\ req' = [kind |-> "DELETE hardware", arg |-> "", hit |-> TRUE]
                       /\ UNCHANGED loc
               /\ UNCHANGED <<pc, report>>
       ELSE /\ \E o \in PoolOutcomes :
                 /\ o # "ok" => loc.success_count > 0
                 /\ PoolFault(o)
                 /\ AggrEnd(IF o = "raised" THEN "raised" ELSE "complete")
            /\ UNCHANGED <<assets, loc, req, attempt>>
    /\ AggrFrame

AggrNext == AggrFetch \/ AggrConfirm1 \/ AggrConfirm2 \/ AggrDelete

AggressiveSpec == AggrInit /\ [][AggrNext]_vars

----
\* jamf-to-snipe.py: main and process_device

\* SMART_GROUPS, lines 70-85, in the order main reads them
GroupOrder ==
    <<"all_staff_mac", "student_loaners", "ssc_laptops", "operations_mac",
      "apple_tvs", "checkin_ipad", "donations_ipad", "moneris_ipad", "teacher_ipad">>

\* main, lines 678-696: the id of the category a group gives its devices
group_category(g) ==
    CASE g = "student_loaners" -> 12
      [] g = "ssc_laptops" -> 13
      [] g = "apple_tvs" -> 11
      [] g = "checkin_ipad" -> 20
      [] g = "donations_ipad" -> 19
      [] g = "moneris_ipad" -> 21
      [] g = "teacher_ipad" -> 15
      [] OTHER -> 16

\* the memberships of the source: a device may be in several groups
GroupPairs ==
    ({"all_staff_mac", "student_loaners", "ssc_laptops"} \X (Serials \ MobileSerials))
    \cup ({"teacher_ipad"} \X MobileSerials)

\* the device dict fetch_devices_from_group makes for a serial
GroupRecord(serial) ==
    CHOOSE d \in PoolDevices : d.serial_number = serial

\* the members of group g, each with device['category'] set
GroupMembers(g) ==
    LET F[i \in 0..Len(JamfOrder)] ==
            IF i = 0 THEN <<>>
            ELSE IF <<g, JamfOrder[i]>> \in jamf
            THEN Append(F[i - 1], [device |-> GroupRecord(JamfOrder[i]),
                                   category |-> group_category(g)])
            ELSE F[i - 1]
    IN  F[Len(JamfOrder)]

\* line 704: max_workers of the pool
GroupWorkers == 1..3

NoTask == [device |-> NoDevice, category |-> 0]
NoGroupWorker == [pc |-> "idle", task |-> NoTask, model_id |-> 0, user_id |-> 0,
                  asset_id |-> 0]

GroupInit ==
    /\ \E present \in {{}, {"A"}} :
        assets = { [id |-> 1, serial |-> x, user |-> 0, category |-> 16] :
                   x \in present }
    /\ nextId = 4
    /\ models = {}
    /\ nextModelId = 1
    /\ jamf \in { M \in SUBSET GroupPairs : Cardinality(M) \in 1..MaxDevices }
    /\ intune = {}
    /\ prog = "groups"
    /\ pc = "fetch"
    /\ runs = 1
    /\ devices = <<>>
    /\ stats = NoStats
    /\ model_cache = NoCache
    /\ user_cache = NoCache
    /\ loc = [g |-> 0, queue |-> <<>>, success_count |-> 0,
              posts |-> [x \in Serials |-> 0],
              workers |-> [w \in GroupWorkers |-> NoGroupWorker]]
    /\ req = NoReq
    /\ attempt = 0
    /\ resp = Pending
    /\ faults = 0
    /\ callReqs = <<>>
    /\ calls = <<>>
    /\ vlog = <<>>
    /\ report = NoReport
    /\ scenario = 0

GroupFrame ==
    UNCHANGED <<source, prog, runs, stats, model_cache, req, attempt, resp,
                callReqs, calls, vlog, scenario>>

\* main, lines 674-698: one round of the two for loops over the groups;
\* fetch_devices_from_group returns [] when its request raises; after the
\* last group the devices are submitted to the pool, lines 704-709
GroupFetch ==
    /\ prog = "groups"
    /\ pc = "fetch"
    /\ IF loc.g < Len(GroupOrder)
       THEN \E o \in {"ok", "raised"} :
               LET members == GroupMembers(GroupOrder[loc.g + 1])
               IN  /\ o # "ok" => members # <<>>
                   /\ PoolFault(o)
                   /\ devices' = IF o = "ok" THEN devices \o members ELSE devices
                   /\ loc' = [loc EXCEPT !.g = @ + 1]
                   /\ UNCHANGED pc
       ELSE /\ loc' = [loc EXCEPT !.queue = devices]
            /\ pc' = "pool"
            /\ UNCHANGED <<devices, faults>>
    /\ GroupFrame
    /\ UNCHANGED <<target, user_cache, report>>

\* process_device returns result to the loop of lines 711-719
GroupReturn(w, result) ==
    loc' = [loc EXCEPT !.workers[w] = NoGroupWorker,
                       !.success_count = IF result THEN @ + 1 ELSE @]

GroupGo(l, w, wk, wpc) == loc' = [l EXCEPT !.workers[w] = [wk EXCEPT !.pc = wpc]]

\* process_device, lines 559-575: with a model id, the user is looked up
\* when the device has an email, else the asset
AfterModel(w, wk) ==
    GroupGo(loc, w, wk, IF wk.task.device.email # "" THEN "user" ELSE "byserial")

\* a free thread takes the next task: process_device up to the model search
\* of _get_or_create_model, lines 546-559 and 172-183
GroupTake ==
    /\ prog = "groups"
    /\ pc = "pool"
    /\ Len(loc.queue) > 0
    /\ \E w \in GroupWorkers :
        /\ loc.workers[w].pc = "idle"
        /\ \A v \in 1..(w - 1) : loc.workers[v].pc # "idle"
        /\ GroupGo([loc EXCEPT !.queue = Tail(@)], w,
                   [NoGroupWorker EXCEPT !.task = Head(loc.queue)], "model_search")
    /\ GroupFrame
    /\ UNCHANGED <<target, devices, user_cache, faults, pc, report>>

\* _get_or_create_model, lines 181-190: the search is answered
GroupModelSearchDone ==
    /\ prog = "groups"
    /\ \E w \in GroupWorkers, o \in PoolOutcomes :
        LET wk == loc.workers[w]
            name == wk.task.device.model
            hits == { m \in RowsModels(name) : m.name = name }
        IN  /\ wk.pc = "model_search"
            /\ PoolFault(o)
            /\ IF o # "ok" THEN GroupReturn(w, FALSE)
               ELSE IF hits # {} THEN AfterModel(w, [wk EXCEPT !.model_id = MinId(hits)])
               ELSE GroupGo(loc, w, wk, "model_create")
    /\ GroupFrame
    /\ UNCHANGED <<target, devices, user_cache, pc, report>>

\* _get_or_create_model, lines 192-213: the create is answered
GroupModelCreateDone ==
    /\ prog = "groups"
    /\ \E w \in GroupWorkers, o \in PoolOutcomes :
        LET wk == loc.workers[w]
        IN  /\ wk.pc = "model_create"
            /\ PoolFault(o)
            /\ IF o = "ok"
               THEN /\ models' = models \cup {[id |-> nextModelId,
                                               name |-> wk.task.device.model]}
                    /\ nextModelId' = nextModelId + 1
                    /\ AfterModel(w, [wk EXCEPT !.model_id = nextModelId])
               ELSE /\ UNCHANGED <<models, nextModelId>>
                    /\ GroupReturn(w, FALSE)
    /\ GroupFrame
    /\ UNCHANGED <<assets, nextId, devices, user_cache, pc, report>>

\* the id of the first user the variations of the email find, 0 for none:
\* _get_user, lines 248-268
FoundUser(email_lower) ==
    LET variations == email_variations(email_lower)
        rows(k) == { u \in Users : lower(u.email) = variations[k] }
        found == { k \in 1..Len(variations) : rows(k) # {} }
    IN  IF found = {} THEN 0
        ELSE MinId(rows(CHOOSE k \in found : \A j \in found : k <= j))

\* _get_user, lines 222-295, called on line 569: the answer of user_cache,
\* or of the lookups
GroupUserDone ==
    /\ prog = "groups"
    /\ \E w \in GroupWorkers, o \in PoolOutcomes :
        LET wk == loc.workers[w]
            email_lower == lower(wk.task.device.email)
        IN  /\ wk.pc = "user"
            /\ IF email_lower \in DOMAIN user_cache
               THEN /\ o = "ok"
                    /\ GroupGo(loc, w, [wk EXCEPT !.user_id = user_cache[email_lower]],
                               "byserial")
                    /\ UNCHANGED <<user_cache, faults>>
               ELSE /\ PoolFault(o)
                    /\ LET user_id == IF o = "ok" THEN FoundUser(email_lower) ELSE 0
                       IN  /\ GroupGo(loc, w, [wk EXCEPT !.user_id = user_id], "byserial")
                           /\ user_cache' = IF o = "raised" THEN user_cache
                                            ELSE Put(user_cache, email_lower, user_id)
    /\ GroupFrame
    /\ UNCHANGED <<target, devices, pc, report>>

\* process_device, lines 587-616: the lookup by serial is answered and the
\* PUT or POST is sent
GroupLookupDone ==
    /\ prog = "groups"
    /\ \E w \in GroupWorkers, o \in PoolOutcomes :
        LET wk == loc.workers[w]
            serial == wk.task.device.serial_number
            rows == { a.id : a \in { x \in assets : x.serial = serial } }
        IN  /\ wk.pc = "byserial"
            /\ PoolFault(o)
            /\ IF o = "raised" THEN GroupReturn(w, FALSE)
               ELSE IF o = "ok" /\ rows # {}
               THEN \E id \in rows : GroupGo(loc, w, [wk EXCEPT !.asset_id = id], "put")
               ELSE GroupGo([loc EXCEPT !.posts[serial] = @ + 1], w, wk, "post")
    /\ GroupFrame
    /\ UNCHANGED <<target, devices, user_cache, pc, report>>

\* process_device, lines 596-620 and 650-654: the PUT or POST is answered
GroupWriteDone ==
    /\ prog = "groups"
    /\ \E w \in GroupWorkers, o \in PoolOutcomes :
        LET wk == loc.workers[w]
            asset_id == IF wk.pc = "post" THEN nextId ELSE wk.asset_id
        IN  /\ wk.pc \in {"put", "post"}
            /\ PoolFault(o)
            /\ IF o = "ok"
               THEN /\ assets' =
                        IF wk.pc = "post"
                        THEN assets \cup {[id |-> nextId,
                                           serial |-> wk.task.device.serial_number,
                                           user |-> 0, category |-> wk.task.category]}
                        ELSE { IF a.id = wk.asset_id
                               THEN [a EXCEPT !.category = wk.task.category] ELSE a :
                               a \in assets }
                    /\ nextId' = IF wk.pc = "post" THEN nextId + 1 ELSE nextId
                    /\ IF wk.user_id # 0
                       THEN GroupGo(loc, w, [wk EXCEPT !.asset_id = asset_id], "checkout")
                       ELSE GroupReturn(w, TRUE)
               ELSE /\ UNCHANGED <<assets, nextId>>
                    /\ GroupReturn(w, FALSE)
    /\ GroupFrame
    /\ UNCHANGED <<models, nextModelId, devices, user_cache, pc, report>>

\* process_device, lines 622-648: the checkout is answered
GroupCheckoutDone ==
    /\ prog = "groups"
    /\ \E w \in GroupWorkers, o \in PoolOutcomes :
        LET wk == loc.workers[w]
        IN  /\ wk.pc = "checkout"
            /\ PoolFault(o)
            /\ assets' = IF o = "ok"
                         THEN { IF a.id = wk.asset_id THEN [a EXCEPT !.user = wk.user_id]
                                ELSE a : a \in assets }
                         ELSE assets
            /\ GroupReturn(w, TRUE)
    /\ GroupFrame
    /\ UNCHANGED <<nextId, models, nextModelId, devices, user_cache, pc, report>>

\* every future has its result: lines 711-721
GroupJoin ==
    /\ prog = "groups"
    /\ pc = "pool"
    /\ Len(loc.queue) = 0
    /\ \A w \in GroupWorkers : loc.workers[w].pc = "idle"
    /\ pc' = "done"
    /\ report' = [kind |-> "groups", success_count |-> loc.success_count,
                  total |-> Len(devices)]
    /\ GroupFrame
    /\ UNCHANGED <<target, devices, user_cache, faults, loc>>

GroupNext ==
    \/ GroupFetch \/ GroupTake \/ GroupModelSearchDone \/ GroupModelCreateDone
    \/ GroupUserDone \/ GroupLookupDone \/ GroupWriteDone \/ GroupCheckoutDone
    \/ GroupJoin

GroupSpec == GroupInit /\ [][GroupNext]_vars

----
\* Claims

SameRecordTwice(i) ==
    /\ i + 1 <= Len(calls)
    /\ calls[i].device = calls[i + 1].device
    /\ calls[i].ret
    /\ calls[i + 1].ret

\* C1: when sync_device_to_snipe is called twice in succession with the same
\* record and both calls succeed, the second call counts as updated, never
\* as a second created, and it addresses the asset id of the first call.
C1_Idempotent ==
    prog = "sync" =>
        \A i \in 1..Len(calls) :
            SameRecordTwice(i) =>
                /\ calls[i + 1].tally = "updated"
                /\ calls[i + 1].asset_id = calls[i].asset_id

\* C2: the target holds at most one asset per serial, and no POST /hardware
\* is on its way for a serial that already has an asset in the target.
C2_SerialIsKey ==
    /\ \A a, b \in assets : a.serial = b.serial => a.id = b.id
    /\ (prog = "sync" /\ req.kind = "POST hardware" /\ resp.st = "pending")
           => req.arg \notin SerialsOf(assets)

\* C3: source {A, B, C} reconciled into a target that held {B} leaves the
\* target with exactly {A, B, C}, verification finds all three, none missing,
\* and the success rate is 100%; with A gone from the source, the cleaner run
\* with an affirmative answer leaves exactly {B, C}, which is the source set,
\* and reports a perfect mirror.
C3_Scenario ==
    /\ (prog = "sync" /\ pc = "done" /\ scenario = 2) =>
           /\ SerialsOf(assets) = {"A", "B", "C"}
           /\ report.found = 3
           /\ report.missing = 0
           /\ report.success_rate_100
    /\ (prog = "clean" /\ pc = "done" /\ scenario = 5) =>
           /\ "A" \notin SerialsOf(assets)
           /\ SerialsOf(assets) = {"B", "C"}
           /\ SerialsOf(assets) = jamf \cup intune
           /\ report.perfect

C3_Witness == prog = "clean" /\ pc = "done" /\ scenario = 5

YesAnswers == {"yes", "YES", "Yes"}

\* C4: the cleaner has sent no DELETE unless the operator answered yes, in
\* any letter case, earlier in the run; with any other answer the assets of
\* the target are those the run started with.
C4_ConfirmationGate ==
    prog = "clean" =>
        /\ (loc.delete_sent > 0 \/ \E i \in 1..Len(callReqs) : callReqs[i] = "DELETE hardware")
               => loc.answer \in YesAnswers
        /\ loc.answer \notin YesAnswers => assets = loc.assets0

C4_Witness ==
    /\ prog = "clean"
    /\ pc = "done"
    /\ Len(loc.to_delete) > 0
    /\ loc.answer \in Answers \ YesAnswers

\* C5: after a confirmed run in which every delete succeeded no asset is left
\* whose serial is outside the Jamf-plus-Intune set, and no asset of a serial
\* enrolled in Jamf or Intune is deleted, whatever the list endpoints answer.
C5_ExactlyOrphans ==
    prog = "clean" =>
        /\ (pc = "done" /\ ~report.crashed /\ loc.answer \in YesAnswers /\ loc.failed = 0)
               => \A a \in assets : a.serial \in jamf \cup intune
        /\ \A a \in loc.assets0 : a.serial \in jamf \cup intune => a \in assets

ReadRequests ==
    {"POST oauth/token", "GET computers-inventory", "GET mobile-devices", "GET hardware"}

\* C6: a run of the verifier issues the token exchange and list GETs only and
\* changes neither the target nor the source.
C6_VerifyPure ==
    /\ [](prog = "verify" => \A i \in 1..Len(callReqs) : callReqs[i] \in ReadRequests)
    /\ [][prog = "verify" => UNCHANGED <<target, source>>]_vars

C6_Witness ==
    /\ prog = "verify"
    /\ pc = "done"
    /\ report.ret # "None"
    /\ Len(callReqs) = 4
    /\ assets # {}

\* C7: the verifier reports missing = S minus T, extra = T minus S, synced =
\* the size of S intersect T and, for a non-empty S, the percentage
\* synced / |S| x 100 (here in hundredths of a percent, rounded down), where
\* S and T are the fetched source and target serials: the serials in Jamf and
\* in the target when the fetches were answered.
C7_SetDifferences ==
    (prog = "verify" /\ pc = "done" /\ report.ret # "None") =>
        LET S == report.jamf_serials
            T == report.snipe_assets
        IN  /\ report.missing_from_snipe = S \ T
            /\ report.extra_in_snipe = T \ S
            /\ report.synced = Cardinality(S \cap T)
            /\ S # {} =>
                 /\ report.sync_percentage * Cardinality(S) <= report.synced * 10000
                 /\ report.synced * 10000 < (report.sync_percentage + 1) * Cardinality(S)
            /\ faults = 0 => (S = jamf /\ T = SerialsOf(assets))

C7_Witness ==
    /\ prog = "verify"
    /\ pc = "done"
    /\ report.ret # "None"
    /\ report.missing_from_snipe # {}
    /\ report.extra_in_snipe # {}
    /\ report.synced > 0

\* C8: the verifier returns True, exit code 0, exactly when no source serial
\* is missing from the target, and a falsy value, exit code 1, exactly when
\* one is missing or the run could not authenticate (stated for the runs in
\* which every request was answered, where the fetched serials are the
\* serials of the source).
C8_VerdictIsMissingSet ==
    (prog = "verify" /\ pc = "done" /\ faults = 0) =>
        /\ report.ret = "True" <=> (report.ret # "None" /\ report.missing_from_snipe = {})
        /\ report.exit = (IF report.ret = "True" THEN 0 ELSE 1)

\* C8 as amended: the verifier returns True, exit code 0, exactly when the
\* fetched source set is not empty and none of its serials is missing from
\* the target; it returns a falsy value, exit code 1, when a serial is
\* missing, when the source set is empty or when the run could not
\* authenticate.
C8_VerdictNonEmpty ==
    (prog = "verify" /\ pc = "done") =>
        /\ report.ret = "True" <=>
               /\ report.ret # "None"
               /\ report.jamf_serials # {}
               /\ report.missing_from_snipe = {}
        /\ report.exit = (IF report.ret = "True" THEN 0 ELSE 1)

C8_Witness ==
    /\ prog = "verify"
    /\ pc = "done"
    /\ report.ret = "False"
    /\ report.jamf_serials = {}
    /\ report.missing_from_snipe = {}

\* C9: every device whose sync_device_to_snipe returned success is counted
\* as found by the verify_sync that follows, and if every device synced
\* successfully verify_sync reports zero missing.
C9_RoundTrip ==
    (prog = "sync" /\ pc = "done" /\ ~report.fatal) =>
        /\ \A i \in 1..Len(calls) : calls[i].ret => vlog[i].res = "found"
        /\ (\A i \in 1..Len(calls) : calls[i].ret) => report.missing = 0

\* C9 as amended: every device whose sync_device_to_snipe returned success
\* and whose by-serial lookup in verify_sync is answered is counted as found,
\* and if every device synced successfully and every lookup is answered
\* verify_sync reports zero missing.
C9_RoundTripAnswered ==
    prog = "sync" =>
        /\ \A i \in 1..Len(vlog) :
               (calls[i].ret /\ vlog[i].answered) => vlog[i].res = "found"
        /\ (pc = "done" /\ ~report.fatal
              /\ \A i \in 1..Len(calls) : calls[i].ret /\ vlog[i].answered)
               => report.missing = 0

C9_Witness ==
    /\ prog = "sync"
    /\ pc = "done"
    /\ ~report.fatal
    /\ Len(calls) >= 2
    /\ \A i \in 1..Len(calls) : calls[i].ret /\ vlog[i].answered
    /\ \E i \in 1..Len(calls) : calls[i].tally = "created"
    /\ report.found = Len(calls)

\* C10: a record whose serial is empty or null is rejected before any
\* request: its call issued none, returned failure, was counted as failed,
\* and the target never holds an asset with an empty serial.
C10_NoSerialRejected ==
    /\ \A a \in assets : a.serial # "" /\ a.serial # None
    /\ prog = "sync" =>
        /\ \A i \in 1..Len(calls) :
               calls[i].device.serial_number \in {"", None} =>
                   /\ calls[i].reqs = <<>>
                   /\ ~calls[i].ret
                   /\ calls[i].tally = "failed"
        /\ stats.failed >= Cardinality({ i \in 1..Len(calls) :
                                          calls[i].device.serial_number \in {"", None} })
        /\ (req.kind # "none" /\ pc \notin {"verify", "verify_wait", "done"})
               => loc.device.serial_number \notin {"", None}

C10_Witness ==
    /\ prog = "sync"
    /\ \E i, j \in 1..Len(calls) :
        /\ calls[i].device.serial_number = ""
        /\ calls[j].device.serial_number = None
    /\ \E i \in 1..Len(calls) : calls[i].ret

\* keywords of the three mobile rules, which come before the computer rules
MobileKeywords == {"staff ipads", "teacher ipad", "kiosk ipad", "check-in", "apple tv"}

ComputerKeywords == {"student", "loaner", "ssc", "staff", "employee"}

HasAny(words, x) == Truthy(x) /\ \E w \in words : In(w, lower(x))

\* C11: a record whose prestage name contains student, in any letter case,
\* is classified Student (id 12), whatever its other fields and the rest of
\* the prestage name are.
C11_StudentPrestage ==
    (Classified /\ HasAny({"student"}, loc.device.prestage_name))
        => report.category = CATEGORIES.student /\ report.category.id = 12

\* C11, amended: a record whose prestage name contains student, in any letter
\* case, and none of the mobile keywords is classified Student (id 12),
\* whatever its other fields are.
C11_StudentPrestageNoMobile ==
    (Classified /\ HasAny({"student"}, loc.device.prestage_name)
        /\ ~HasAny(MobileKeywords, loc.device.prestage_name))
        => report.category = CATEGORIES.student /\ report.category.id = 12

C11_Witness ==
    /\ Classified
    /\ loc.device.prestage_name = "sTUDENT Staff"
    /\ loc.device.model = "iPad"
    /\ loc.device.device_name = "SSC-3"
    /\ report.category.id = 12

\* C12: the classifier returns one of the 8 configured categories for every
\* combination of inputs, null and empty ones included, and it returns Staff
\* (id 16) when prestage, model and email are empty and the device name
\* matches no substring rule.
C12_TotalDefaultStaff ==
    Classified =>
        /\ \E k \in DOMAIN CATEGORIES : report.category = CATEGORIES[k]
        /\ Cardinality({ k \in DOMAIN CATEGORIES : report.category = CATEGORIES[k] }) = 1
        /\ Cardinality(DOMAIN CATEGORIES) = 8
        /\ (/\ ~Truthy(loc.device.prestage_name)
            /\ ~Truthy(loc.device.model)
            /\ ~Truthy(loc.device.email)
            /\ ~HasAny({"student", "loaner", "loan", "it-", "ssc"}, loc.device.device_name))
               => report.category.id = 16

C12_Witness ==
    /\ Classified
    /\ loc.device.prestage_name = None
    /\ loc.device.model = None
    /\ loc.device.email = None
    /\ loc.device.device_name = None
    /\ report.category = CATEGORIES.staff

\* the classification of the record that has the same prestage name and
\* nothing else
ByPrestageAlone(d) == determine_category_from_prestage(d.prestage_name, None, None, None)

\* C13: when the prestage name matches a prestage rule the category is the
\* one the prestage name gives alone, whatever model, email and device name
\* are; a prestage name with ssc and without student and loaner gives SSC,
\* also when staff or employee is in it.
C13_PrestageFirst ==
    Classified =>
        /\ HasAny(MobileKeywords \cup ComputerKeywords, loc.device.prestage_name)
               => report.category = ByPrestageAlone(loc.device)
        /\ (/\ HasAny({"ssc"}, loc.device.prestage_name)
            /\ ~HasAny({"student", "loaner"}, loc.device.prestage_name))
               => report.category = CATEGORIES.ssc

\* C13, amended: as C13, the SSC case being that of a prestage name with ssc
\* and without student, loaner and the mobile keywords.
C13_PrestageFirstNoMobile ==
    Classified =>
        /\ HasAny(MobileKeywords \cup ComputerKeywords, loc.device.prestage_name)
               => report.category = ByPrestageAlone(loc.device)
        /\ (/\ HasAny({"ssc"}, loc.device.prestage_name)
            /\ ~HasAny({"student", "loaner"}, loc.device.prestage_name)
            /\ ~HasAny(MobileKeywords, loc.device.prestage_name))
               => report.category = CATEGORIES.ssc

C13_Witness ==
    /\ Classified
    /\ loc.device.prestage_name = "Staff SSC"
    /\ loc.device.model = "Apple TV"
    /\ loc.device.email = "kim@student.wic.ca"
    /\ report.category = CATEGORIES.ssc

\* the positions of sync_device_to_snipe at which a call is under way
InCall == pc \in {"model_search", "model_create", "byserial", "update", "create",
                  "user_search", "checkout"}

Has(reqs, kind) == \E k \in 1..Len(reqs) : reqs[k] = kind

\* C14: process_devices_in_batches calls sync_device_to_snipe once for every
\* device of the list, in list order, whatever the calls before returned or
\* raised; when it returns, every device of the list has had its call.
C14_BatchContinues ==
    prog = "sync" =>
        /\ Len(devices) <= stats.total_devices
        /\ Len(calls) = IF InCall THEN Len(devices) - 1 ELSE Len(devices)
        /\ \A i \in 1..Len(calls) : calls[i].device = devices[i]
        /\ pc \notin {"loop"} /\ ~InCall => Len(calls) = stats.total_devices

C14_Witness ==
    /\ prog = "sync"
    /\ pc = "verify"
    /\ stats.total_devices = 3
    /\ Len(calls) = 3
    /\ ~calls[1].ret /\ Has(calls[1].reqs, "GET byserial")
    /\ ~calls[2].ret /\ calls[2].reqs = <<>>
    /\ calls[3].ret

\* C16: api_call_with_retry sends at most MAX_RETRIES = 5 requests: every
\* round either returns or moves to the next attempt, a usable answer is
\* returned in the round it arrives, and None is returned only after the
\* fifth request failed; repeated 429 answers end the same way.
C16_BoundedRetry ==
    /\ [](prog = "sync" =>
            /\ attempt + 1 <= MAX_RETRIES
            /\ resp.st = "none" => (attempt + 1 = MAX_RETRIES /\ req.hit))
    /\ [][(prog = "sync" /\ req.kind # "none" /\ resp.st = "pending"
             /\ <<resp, attempt, req>> # <<resp', attempt', req'>>)
            => \/ resp'.st \in {"ok", "bad"} /\ attempt' = attempt
               \/ resp'.st = "none" /\ attempt' = attempt /\ attempt + 1 = MAX_RETRIES
               \/ resp'.st = "pending" /\ attempt' = attempt + 1]_vars

C16_Witness ==
    /\ prog = "sync"
    /\ req.kind = "GET byserial"
    /\ resp.st = "none"
    /\ attempt + 1 = MAX_RETRIES

\* the call got as far as the checkout step
ReachedCheckout(c) == Has(c.reqs, "GET users") \/ Has(c.reqs, "POST checkout")

C18_CheckoutAfterWrite ==
    prog = "sync" =>
        /\ req.kind = "POST checkout" =>
              /\ loc.tally \in {"created", "updated"}
              /\ loc.asset_id # 0
              /\ req.arg[1] = loc.asset_id
              /\ \E a \in assets : a.id = req.arg[1] /\ a.serial = loc.device.serial_number
              /\ \E k \in 1..Len(callReqs) :
                    /\ callReqs[k] \in {"PUT hardware", "POST hardware"}
                    /\ \A j \in 1..k : callReqs[j] # "POST checkout"
        /\ \A i \in 1..Len(calls) :
              (~calls[i].ret \/ calls[i].asset_id = 0)
                  => ~Has(calls[i].reqs, "POST checkout")

C18_Witness ==
    /\ prog = "sync"
    /\ Len(calls) = 2
    /\ calls[1].tally = "created" /\ calls[1].asset_id = 0
          /\ Truthy(calls[1].device.email)
    /\ calls[2].tally = "updated" /\ Has(calls[2].reqs, "POST checkout")
    /\ calls[2].user # 0

\* the (model_name, category_id) pair a call asks get_or_create_model for
PairOf(c) == <<c.device.model, c.category_id>>

\* two devices that both reach get_or_create_model (line 522 lets them pass)
\* and ask it for the same pair
SamePair(c, d) ==
    /\ Truthy(c.device.serial_number)
    /\ Truthy(d.device.serial_number)
    /\ PairOf(c) = PairOf(d)

\* the calls of sync_device_to_snipe so far, the one under way included
ModelCalls ==
    LET done == [i \in 1..Len(calls) |->
                    [device |-> calls[i].device, reqs |-> calls[i].reqs,
                     model_id |-> calls[i].model_id,
                     category_id |-> calls[i].category_id]]
    IN  IF InCall
        THEN Append(done, [device |-> loc.device, reqs |-> callReqs,
                           model_id |-> loc.model_id,
                           category_id |-> loc.category_id])
        ELSE done

\* C19: over a run at most one create-model POST is issued per
\* (model_name, category_id) pair, and after a call resolved a pair every
\* later call for it gets the same id without a search or a create.
C19_OneCreatePerPair ==
    prog = "sync" =>
        \A i, j \in 1..Len(ModelCalls) :
            (i < j /\ SamePair(ModelCalls[i], ModelCalls[j])) =>
                /\ ~(Has(ModelCalls[i].reqs, "POST models") /\ Has(ModelCalls[j].reqs, "POST models"))
                /\ ModelCalls[i].model_id # 0 =>
                      /\ ~Has(ModelCalls[j].reqs, "GET models")
                      /\ ~Has(ModelCalls[j].reqs, "POST models")
                      /\ ModelCalls[j].model_id = ModelCalls[i].model_id

\* C19, amended: over a run at most one create-model POST that is answered
\* with an id is issued per pair; after a call resolved a pair every later
\* call for it gets the same id without a search or a create, and the id is
\* that of a model named for the pair.
C19_OneResolvedCreatePerPair ==
    prog = "sync" =>
        /\ \A i, j \in 1..Len(ModelCalls) :
            (i < j /\ SamePair(ModelCalls[i], ModelCalls[j])) =>
                /\ ~(/\ Has(ModelCalls[i].reqs, "POST models") /\ ModelCalls[i].model_id # 0
                     /\ Has(ModelCalls[j].reqs, "POST models") /\ ModelCalls[j].model_id # 0)
                /\ ModelCalls[i].model_id # 0 =>
                      /\ ~Has(ModelCalls[j].reqs, "GET models")
                      /\ ~Has(ModelCalls[j].reqs, "POST models")
                      /\ ModelCalls[j].model_id = ModelCalls[i].model_id
        /\ \A i \in 1..Len(ModelCalls) :
              ModelCalls[i].model_id # 0 =>
                  \E m \in models :
                      /\ m.id = ModelCalls[i].model_id
                      /\ m.name = category_specific_name(PairOf(ModelCalls[i])[1],
                                                         PairOf(ModelCalls[i])[2])

C19_Witness ==
    /\ prog = "sync"
    /\ Len(calls) = 2
    /\ SamePair(calls[1], calls[2])
    /\ Has(calls[1].reqs, "POST models")
    /\ calls[1].model_id # 0
    /\ calls[2].model_id = calls[1].model_id
    /\ calls[2].reqs[1] = "GET byserial"

\* C15: in the Kandji sync no device's HTTP error ends the loop over the
\* devices: the run is not ended by an HTTPError, at its end every device of
\* the list has been attempted, and a device that was not synced is
\* reported as failed.
C15_KandjiContinues ==
    prog = "kandji" =>
        /\ pc = "crashed" => report.traceback # "http_error"
        /\ pc = "done" =>
              /\ Len(calls) = Len(devices)
              /\ \A i \in 1..Len(calls) :
                    /\ calls[i].device = devices[i]
                    /\ ~calls[i].success => calls[i].reported = "failed"

\* C20: at no point do two workers of the pool have a write request to the
\* target (POST or PUT on hardware or models) in flight at the same time.
C20_NoConcurrentWrites ==
    prog = "bulletproof" =>
        Cardinality({ w \in Workers : req[w].kind \in WriteKinds }) <= 1

TallyOf(kind) == Cardinality({ i \in 1..Len(calls) : calls[i].tally = kind })

\* the call under way has counted its device already (lines 580 and 597)
CountedUnderWay == IF InCall /\ loc.tally # "none" THEN 1 ELSE 0

\* C27: every call of sync_device_to_snipe adds one to exactly one of
\* stats['created'], stats['updated'] and stats['failed'], it returns True
\* exactly when that is created or updated, and after the batch the three
\* add up to the number of devices processed.
C27_TallyInvariant ==
    prog = "sync" =>
        /\ \A i \in 1..Len(calls) :
              /\ calls[i].tally \in {"created", "updated", "failed"}
              /\ calls[i].ret = (calls[i].tally \in {"created", "updated"})
        /\ stats.failed = TallyOf("failed")
        /\ stats.created + stats.updated
              = TallyOf("created") + TallyOf("updated") + CountedUnderWay
        /\ stats.created >= TallyOf("created")
        /\ stats.updated >= TallyOf("updated")
        /\ ~InCall /\ pc # "loop"
              => stats.created + stats.updated + stats.failed = Len(devices)

C27_Witness ==
    /\ prog = "sync"
    /\ pc = "done"
    /\ stats.created = 1
    /\ stats.updated = 1
    /\ stats.failed = 1
    /\ Len(devices) = 3

\* get_jamf_token returned None: every one of its MAX_RETRIES rounds failed
AuthFailed == prog = "sync" /\ "token" \in DOMAIN loc /\ loc.token = None

\* C24: when the token request of the ultimate sync fails on all MAX_RETRIES
\* attempts, the process ends with exit code 1, having fetched no device from
\* the source and sent no request to the target.
C24_AuthFailureFatal ==
    AuthFailed =>
        /\ pc = "done"
        /\ report.exit = 1
        /\ loc.computers = <<>> /\ loc.mobile_devices = <<>>
        /\ devices = <<>> /\ calls = <<>>
        /\ req = NoReq /\ callReqs = <<>>
        /\ nextId = 4 /\ models = {}

C24_Witness ==
    AuthFailed /\ pc = "done" /\ report.exit = 1 /\ jamf = Serials /\ assets = {}

\* every device of the source had a call of sync_device_to_snipe that counted
\* it as created or updated
SyncedAll ==
    \A s \in jamf :
        \E i \in 1..Len(calls) : calls[i].device.serial_number = s /\ calls[i].ret

\* C22: the ultimate sync exits with code 0 if and only if every device of the
\* source ended up created or updated in the target; it exits with code 1
\* when a device failed, could not be fetched or was dropped, and on
\* authentication failure, interrupt and fatal error.
C22_ExitCode ==
    prog = "sync" /\ pc \in {"done", "interrupted"} =>
        IF report.fatal THEN report.exit = 1
        ELSE report.exit = 0 <=> SyncedAll

\* a call of sync_device_to_snipe had not returned when the process ended
ReconcileCutShort == "device" \in DOMAIN loc /\ loc.device # NoDevice

\* an asset was created or updated and the same call had not reached its end
WrittenNotFinished ==
    "tally" \in DOMAIN loc /\ loc.tally \in {"created", "updated"}

\* C21: when the operator interrupts the ultimate sync while a device is being
\* reconciled, the run stops only after the reconcile of that device has
\* completed: no call of sync_device_to_snipe is cut short, and no asset is
\* left created or updated with the checkout of the same call skipped.
C21_InterruptAfterRecord ==
    prog = "sync" /\ pc = "interrupted" =>
        ~ReconcileCutShort /\ ~WrittenNotFinished

\* the operator declined one of the two prompts of the wipe
Declined ==
    \/ lower(loc.confirm1) # "yes"
    \/ loc.confirm2 # "WIPE EVERYTHING CLEAN"

\* C23: when the operator declines either of the two confirmation prompts of
\* the ultimate wipe, no request is sent to the target and the process exits
\* with code 1.
C23_DeclineExitsOne ==
    prog = "wipe" /\ pc = "done" /\ Declined =>
        /\ loc.sent = 0
        /\ report.exit = 1

\* C25: after a run of the aggressive wipe in which both confirmations were
\* given and every DELETE ended in a 200 answer, the target holds no
\* hardware asset, whatever the number of assets it held at the start.
C25_WipesAll ==
    /\ prog = "aggressive" /\ pc = "done"
    /\ lower(loc.confirm1) = "yes" /\ loc.confirm2 = "WIPE EVERYTHING"
    /\ loc.i = Len(loc.devices) /\ loc.failed_count = 0
    => assets = {}

\* C26: in a run of the bulletproof sync, whatever the interleaving of the
\* MAX_WORKERS threads, at most one create-model POST is issued for a pair
\* (model_name, category_id).
C26_OneCreatePerPair ==
    prog = "bulletproof" =>
        \A i, j \in 1..Len(loc.creates) :
            loc.creates[i] = loc.creates[j] => i = j

\* C28: at the end of main of the bulletproof sync the reported number of
\* synced devices plus the number of failed devices is the number of
\* devices, a device that succeeded on a later attempt being counted as
\* synced.
C28_ReportPartitions ==
    prog = "bulletproof" /\ pc = "done" =>
        report.success_count + report.failed = Len(devices)

\* C29: a failed model resolution of the bulletproof sync is not remembered:
\* no pair (model_name, category_id) is answered with None from the cache, so
\* the next sync attempt sends the model search again.
C29_FailureNotRemembered ==
    prog = "bulletproof" =>
        \A key \in DOMAIN model_cache : model_cache[key] # 0

\* device['category'] of the last entry of all_devices for the serial: what a
\* run that processes the devices one at a time in list order writes last
LastCategory(serial) ==
    LET last == CHOOSE i \in 1..Len(devices) :
                    /\ devices[i].device.serial_number = serial
                    /\ \A j \in (i + 1)..Len(devices) :
                          devices[j].device.serial_number # serial
    IN  devices[last].category

\* C30: in a run of jamf-to-snipe.py, whatever the interleaving of the three
\* worker threads and the assignment of devices to smart groups, at most one
\* create POST is issued per serial, and the category written for a serial
\* is the same under every scheduling.
C30_OneCreatePerSerial ==
    prog = "groups" =>
        /\ \A serial \in Serials : loc.posts[serial] <= 1
        /\ pc = "done" /\ faults = 0 =>
              \A a \in assets :
                  (\E i \in 1..Len(devices) : devices[i].device.serial_number = a.serial)
                  => a.category = LastCategory(a.serial)

====
